---------------------------- MODULE Spec2Model ----------------------------
(***************************************************************************)
(* Model of the local authentication core of AwesomeProject:               *)
(*   SecurityUtils (src/src/Notes.tsx, lines 417-628): input validation,   *)
(*     password digest, XOR codec, secure storage over AsyncStorage and    *)
(*     the in-memory rate limiter;                                         *)
(*   AuthService (src/unnamed/part_000): registerUser, authenticateUser,   *)
(*     createSession, getCurrentSession, logout, getStoredUsers.           *)
(*                                                                         *)
(* A JavaScript string is a sequence of one-character strings.  Date.now() *)
(* is the variable now (milliseconds).                                     *)
(***************************************************************************)
EXTENDS Integers, Sequences, FiniteSets, TLC

(***************************************************************************)
(* Characters and strings                                                  *)
(***************************************************************************)

\* The printable ASCII characters, code 32 first.  Code 96 cannot be written
\* in a TLA+ string and is named instead.
Ascii ==
  <<
     " ", "!", "\"", "#", "$", "%", "&", "'", "(", ")", "*", "+", ",", "-", ".", "/",
     "0", "1", "2", "3", "4", "5", "6", "7", "8", "9", ":", ";", "<", "=", ">", "?",
     "@", "A", "B", "C", "D", "E", "F", "G", "H", "I", "J", "K", "L", "M", "N", "O",
     "P", "Q", "R", "S", "T", "U", "V", "W", "X", "Y", "Z", "[", "\\", "]", "^", "_",
     "backtick", "a", "b", "c", "d", "e", "f", "g", "h", "i", "j", "k", "l", "m", "n", "o",
     "p", "q", "r", "s", "t", "u", "v", "w", "x", "y", "z", "{", "|", "}", "~" >>

\* String.prototype.charCodeAt for one character.
CharCodes == [c \in {Ascii[i] : i \in 1..Len(Ascii)} |->
               31 + CHOOSE i \in 1..Len(Ascii) : Ascii[i] = c]
Ord(c) == CharCodes[c]

\* String.fromCharCode for a printable code.
Chr(n) == Ascii[n - 31]

IsLower(c) == Ord(c) \in 97..122
IsUpper(c) == Ord(c) \in 65..90
IsDigit(c) == Ord(c) \in 48..57
\* The regular-expression class \w.
IsWord(c) == IsLower(c) \/ IsUpper(c) \/ IsDigit(c) \/ c = "_"

\* String.prototype.toLowerCase, one character and a whole string.
LowerChar(c) == IF IsUpper(c) THEN Chr(Ord(c) + 32) ELSE c
ToLowerCase(s) == [i \in 1..Len(s) |-> LowerChar(s[i])]

\* The digits of Number.prototype.toString(radix), radix up to 36.
DigitChars == <<"0", "1", "2", "3", "4", "5", "6", "7", "8", "9", "a", "b", "c", "d", "e", "f", "g", "h", "i", "j", "k", "l", "m", "n", "o", "p", "q", "r", "s", "t", "u", "v", "w", "x", "y", "z">>

RECURSIVE NatToString(_, _)
NatToString(n, radix) ==
  IF n < radix THEN <<DigitChars[n + 1]>>
  ELSE NatToString(n \div radix, radix) \o <<DigitChars[(n % radix) + 1]>>

\* Number.prototype.toString(radix) of an integer.
NumToString(n, radix) ==
  IF n < 0 THEN <<"-">> \o NatToString(0 - n, radix) ELSE NatToString(n, radix)

\* String.prototype.trim (the only white space of the alphabet is the space).
RECURSIVE TrimStart(_)
TrimStart(s) ==
  IF s # <<>> /\ Head(s) = " " THEN TrimStart(Tail(s)) ELSE s

RECURSIVE TrimEnd(_)
TrimEnd(s) ==
  IF s # <<>> /\ s[Len(s)] = " " THEN TrimEnd(SubSeq(s, 1, Len(s) - 1)) ELSE s

Trim(s) == TrimEnd(TrimStart(s))

\* s has the string t at index i, ignoring case (the i flag of a RegExp).
MatchesAt(s, i, t) ==
  /\ i + Len(t) - 1 <= Len(s)
  /\ \A j \in 1..Len(t) : LowerChar(s[i + j - 1]) = t[j]

(***************************************************************************)
(* btoa / atob                                                             *)
(***************************************************************************)

Base64Chars ==
  <<"A", "B", "C", "D", "E", "F", "G", "H", "I", "J", "K", "L", "M", "N", "O", "P", "Q", "R", "S", "T", "U", "V", "W", "X", "Y", "Z", "a", "b", "c", "d", "e", "f", "g", "h", "i", "j", "k", "l", "m", "n", "o", "p", "q", "r", "s", "t", "u", "v", "w", "x", "y", "z", "0", "1", "2", "3", "4", "5", "6", "7", "8", "9", "+", "/">>

B64(n) == Base64Chars[n + 1]
Base64Values == [c \in {Base64Chars[i] : i \in 1..64} |->
                  (CHOOSE i \in 1..64 : Base64Chars[i] = c) - 1]
B64Index(c) == Base64Values[c]

\* btoa of a string of character codes below 256.
RECURSIVE Btoa(_)
Btoa(s) ==
  IF s = <<>> THEN <<>>
  ELSE LET b1 == Ord(s[1])
           b2 == IF Len(s) >= 2 THEN Ord(s[2]) ELSE 0
           b3 == IF Len(s) >= 3 THEN Ord(s[3]) ELSE 0
           n  == b1 * 65536 + b2 * 256 + b3
           c1 == B64(n \div 262144)
           c2 == B64((n \div 4096) % 64)
           c3 == IF Len(s) >= 2 THEN B64((n \div 64) % 64) ELSE "="
           c4 == IF Len(s) >= 3 THEN B64(n % 64) ELSE "="
       IN  <<c1, c2, c3, c4>> \o
           (IF Len(s) > 3 THEN Btoa(SubSeq(s, 4, Len(s))) ELSE <<>>)

\* atob of a padded base64 string.
RECURSIVE Atob(_)
Atob(s) ==
  IF s = <<>> THEN <<>>
  ELSE LET v3 == IF s[3] = "=" THEN 0 ELSE B64Index(s[3])
           v4 == IF s[4] = "=" THEN 0 ELSE B64Index(s[4])
           n  == B64Index(s[1]) * 262144 + B64Index(s[2]) * 4096 + v3 * 64 + v4
           o1 == <<Chr(n \div 65536)>>
           o2 == IF s[3] = "=" THEN <<>> ELSE <<Chr((n \div 256) % 256)>>
           o3 == IF s[4] = "=" THEN <<>> ELSE <<Chr(n % 256)>>
       IN  o1 \o o2 \o o3 \o
           (IF Len(s) > 4 THEN Atob(SubSeq(s, 5, Len(s))) ELSE <<>>)

(***************************************************************************)
(* SecurityUtils.validateAndSanitizeInput                                  *)
(***************************************************************************)

ScriptOpen  == <<"<", "s", "c", "r", "i", "p", "t">>
ScriptClose == <<"<", "/", "s", "c", "r", "i", "p", "t", ">">>

\* The characters removed by /[<>\"'%;()&+]/g.
DangerousChars == {"<", ">", "\"", "'", "%", ";", "(", ")", "&", "+"}

\* Index of the first "</script>" at or after index j, 0 when there is none.
RECURSIVE FindScriptClose(_, _)
FindScriptClose(s, j) ==
  IF j > Len(s) THEN 0
  ELSE IF MatchesAt(s, j, ScriptClose) THEN j
  ELSE FindScriptClose(s, j + 1)

\* /<script\b[^<]*(?:(?!<\/script>)<[^<]*)*<\/script>/gi matches at index i:
\* "<script", a word boundary, and then everything up to and including the
\* first "</script>" that follows.
ScriptMatchEnd(s, i) ==
  IF /\ MatchesAt(s, i, ScriptOpen)
     /\ i + Len(ScriptOpen) <= Len(s)
     /\ ~IsWord(s[i + Len(ScriptOpen)])
     /\ FindScriptClose(s, i + Len(ScriptOpen)) # 0
  THEN FindScriptClose(s, i + Len(ScriptOpen)) + Len(ScriptClose) - 1
  ELSE 0

\* replace(/<script...<\/script>/gi, '') from index i on.
RECURSIVE StripScripts(_, _)
StripScripts(s, i) ==
  IF i > Len(s) THEN <<>>
  ELSE IF ScriptMatchEnd(s, i) # 0 THEN StripScripts(s, ScriptMatchEnd(s, i) + 1)
  ELSE <<s[i]>> \o StripScripts(s, i + 1)

IsDangerous(c) == c \in DangerousChars

\* The sanitized string of validateAndSanitizeInput, whatever the type.
Sanitize(input) ==
  SelectSeq(StripScripts(Trim(input), 1), LAMBDA c : ~IsDangerous(c))

UsernameErrors(sanitized) ==
  (IF Len(sanitized) < 3
     THEN <<"Username must be at least 3 characters long">> ELSE <<>>)
  \o (IF Len(sanitized) > 20
     THEN <<"Username must be less than 20 characters">> ELSE <<>>)
  \o (IF ~(sanitized # <<>> /\ \A i \in 1..Len(sanitized) : IsWord(sanitized[i]))
     THEN <<"Username can only contain letters, numbers, and underscores">>
     ELSE <<>>)

PasswordErrors(sanitized) ==
  (IF Len(sanitized) < 8
     THEN <<"Password must be at least 8 characters long">> ELSE <<>>)
  \o (IF ~(/\ \E i \in 1..Len(sanitized) : IsLower(sanitized[i])
           /\ \E i \in 1..Len(sanitized) : IsUpper(sanitized[i])
           /\ \E i \in 1..Len(sanitized) : IsDigit(sanitized[i]))
     THEN <<"Password must contain uppercase, lowercase, and numeric characters">>
     ELSE <<>>)

TextErrors(sanitized) ==
  IF Len(sanitized) > 1000
    THEN <<"Text content is too long (max 1000 characters)">> ELSE <<>>

ValidateAndSanitizeInput(input, type) ==
  LET sanitized == Sanitize(input)
      errors == CASE type = "username" -> UsernameErrors(sanitized)
                  [] type = "password" -> PasswordErrors(sanitized)
                  [] type = "text"     -> TextErrors(sanitized)
  IN  [isValid |-> errors = <<>>, sanitized |-> sanitized, errors |-> errors]

(***************************************************************************)
(* SecurityUtils.isWeakPassword                                            *)
(***************************************************************************)

weakPasswords ==
  { <<"p", "a", "s", "s", "w", "o", "r", "d">>,
    <<"1", "2", "3", "4", "5", "6">>,
    <<"p", "a", "s", "s", "w", "o", "r", "d", "1", "2", "3">>,
    <<"a", "d", "m", "i", "n">>,
    <<"q", "w", "e", "r", "t", "y">>,
    <<"l", "e", "t", "m", "e", "i", "n">>,
    <<"w", "e", "l", "c", "o", "m", "e">>,
    <<"m", "o", "n", "k", "e", "y">>,
    <<"1", "2", "3", "4", "5", "6", "7", "8", "9", "0">>,
    <<"s", "e", "c", "r", "e", "t">> }

IsWeakPassword(password) == ToLowerCase(password) \in weakPasswords

(***************************************************************************)
(* SecurityUtils.hashPassword, generateSecureUserId, getEncryptionKey      *)
(***************************************************************************)

\* A 32-bit word is the pair <<high half, low half>> of 16-bit halves, so
\* that hash * 31 + char wraps as (hash << 5) - hash + char; hash & hash.
HashStep(h, code) ==
  LET low  == h[2] * 31 + code
      high == h[1] * 31 + (low \div 65536)
  IN  <<high % 65536, low % 65536>>

RECURSIVE HashLoop(_, _, _)
HashLoop(h, s, i) ==
  IF i > Len(s) THEN h ELSE HashLoop(HashStep(h, Ord(s[i])), s, i + 1)

\* The value of a 32-bit word read as a signed integer.
ToInt32(h) ==
  IF h[1] >= 32768 THEN (h[1] - 65536) * 65536 + h[2] ELSE h[1] * 65536 + h[2]

salt == <<"A", "P", "P", "_", "S", "A", "L", "T", "_", "2", "0", "2", "4">>

HashPassword(password) ==
  IF Len(password) = 0 THEN NumToString(0, 10)
  ELSE Btoa(NumToString(ToInt32(HashLoop(<<0, 0>>, password, 1)) + Len(salt), 36))

UserIdPrefix == <<"u", "s", "e", "r", "_">>

\* generateSecureUserId(username) when Date.now() reads t.
GenerateSecureUserId(username, t) ==
  LET userHash == HashPassword(username \o NumToString(t, 10))
  IN  UserIdPrefix \o SubSeq(userHash, 1, IF Len(userHash) < 12 THEN Len(userHash) ELSE 12)

EncryptionKeyPrefix == <<"R", "N", "_", "A", "P", "P", "_">>

\* getEncryptionKey() when Date.now() reads t.
GetEncryptionKey(t) == EncryptionKeyPrefix \o NumToString(t, 36)

(***************************************************************************)
(* Bounds, inputs and clock readings of the model                          *)
(***************************************************************************)

\* The first clock reading, and the number of calls of public operations in
\* one behaviour of Spec and of SpecLockout.
StartTime == 1000
MaxCalls == 5
MaxLockoutCalls == 7

\* 15 * 60 * 1000 of checkRateLimit and 24 * 60 * 60 * 1000 of getCurrentSession.
RateLimitWindow == 15 * 60 * 1000
SessionLifetime == 24 * 60 * 60 * 1000
\* "Allow up to 5 login attempts".
MaxAttempts == 5

\* "15 minutes" and "24 hours" as the claims say them, in milliseconds.
FifteenMinutes  == 15 * 60 * 1000
TwentyFourHours == 24 * 60 * 60 * 1000

\* The clock readings: the start, one millisecond less than 15 minutes later,
\* exactly 15 minutes later, exactly 24 hours later, and one millisecond
\* after that.
Times ==
  { StartTime,
    StartTime + FifteenMinutes - 1,
    StartTime + FifteenMinutes,
    StartTime + TwentyFourHours,
    StartTime + TwentyFourHours + 1 }

\* The usernames and passwords the callers type.
Usernames ==
  { <<"d", "e", "m", "o", "_", "u", "s", "e", "r">>,
    <<" ", "<", "t", "e", "s", "t", "_", "u", "s", "e", "r", ">">> }

Passwords ==
  { <<"S", "e", "c", "u", "r", "e", "P", "a", "s", "s", "1", "2", "3", "!">>,
    <<"P", "a", "s", "s", "w", "o", "r", "d", "1", "2", "3">>,
    <<"w", "r", "o", "n", "g">> }

\* The usernames typed in SpecLockout: two spellings of one username.
LockoutUsernames ==
  { <<"d", "e", "m", "o", "_", "u", "s", "e", "r">>,
    <<" ", "<", "d", "e", "m", "o", "_", "u", "s", "e", "r", ">">> }

\* The strings typed in SpecInputs: a username that is too short beside two
\* valid ones; two valid passwords, 'xAa12345' and 'xBB12345', that differ in
\* two characters ('A' * 31 + 'a' = 'B' * 31 + 'B'), and one that fails the
\* format rules.
InputUsernames ==
  { <<"d", "e", "m", "o", "_", "u", "s", "e", "r">>,
    <<"t", "e", "s", "t", "_", "u", "s", "e", "r">>,
    <<"a", "b">> }

InputPasswords ==
  { <<"x", "A", "a", "1", "2", "3", "4", "5">>,
    <<"x", "B", "B", "1", "2", "3", "4", "5">>,
    <<"w", "r", "o", "n", "g">> }

\* The strings typed in SpecRegister: two valid usernames, 'xAa' and 'xBB',
\* that differ as the passwords above do; a strong password, a password of
\* the denylist in another case, and the same with a space before it.
RegisterUsernames ==
  { <<"x", "A", "a">>,
    <<"x", "B", "B">> }

RegisterPasswords ==
  { <<"S", "e", "c", "u", "r", "e", "P", "a", "s", "s", "1", "2", "3", "!">>,
    <<"P", "a", "s", "s", "w", "o", "r", "d", "1", "2", "3">>,
    <<" ", "P", "a", "s", "s", "w", "o", "r", "d", "1", "2", "3">> }

\* initializeDemoUsers() registers these two.
DemoCredentials ==
  << [username |-> <<"d", "e", "m", "o", "_", "u", "s", "e", "r">>,
      password |-> <<"S", "e", "c", "u", "r", "e", "P", "a", "s", "s", "1", "2", "3", "!">>],
     [username |-> <<"t", "e", "s", "t", "_", "u", "s", "e", "r">>,
      password |-> <<"T", "e", "s", "t", "P", "a", "s", "s", "4", "5", "6", "!">>] >>

(***************************************************************************)
(* The string functions above, tabulated once for the arguments the model  *)
(* calls them with.                                                        *)
(***************************************************************************)

TypedInputs ==
  {<<>>} \cup Usernames \cup LockoutUsernames \cup Passwords
    \cup InputUsernames \cup InputPasswords
    \cup RegisterUsernames \cup RegisterPasswords
    \cup {DemoCredentials[i].username : i \in 1..2}
    \cup {DemoCredentials[i].password : i \in 1..2}

ValidationTable ==
  [type \in {"username", "password"} |->
    [input \in TypedInputs |-> ValidateAndSanitizeInput(input, type)]]

\* The same with every input found valid.
ValidatedAlwaysValid(input, type) ==
  [ValidationTable[type][input] EXCEPT !.isValid = TRUE]
Validated(input, type) == ValidationTable[type][input]

SanitizedInputs == {Sanitize(input) : input \in TypedInputs}

HashTable == [s \in SanitizedInputs |-> HashPassword(s)]
HashOfIdentity(s) == s
HashOf(s) == HashTable[s]

UserIdTable ==
  [u \in SanitizedInputs |-> [t \in Times |-> GenerateSecureUserId(u, t)]]
UserIdOf(u, t) == UserIdTable[u][t]

SessionIdTable ==
  [u \in SanitizedInputs |->
    [t \in Times |-> GenerateSecureUserId(u \o NumToString(t, 10), t)]]
SessionIdOf(u, t) == SessionIdTable[u][t]

EncryptionKeyTable == [t \in Times |-> GetEncryptionKey(t)]
EncryptionKeyOf(t) == EncryptionKeyTable[t]

KeyHashTable == [t \in Times |-> Btoa(GetEncryptionKey(t))]
KeyHashOf(t) == KeyHashTable[t]

AtobTable == [k \in {KeyHashTable[t] : t \in Times} |-> Atob(k)]
AtobOf(k) == AtobTable[k]

(***************************************************************************)
(* State                                                                   *)
(***************************************************************************)

VARIABLES
  now,           \* the reading of Date.now()
  authAttempts,  \* SecurityUtils.authAttempts: username -> {count, lastAttempt}
  storage,       \* AsyncStorage: physical key -> stored item
  last,          \* the latest call of a public operation and what it returned
  login,         \* the latest successful authenticateUser or logout call
  streak,        \* the run of checkRateLimit calls for one username
  repeats,       \* how many times in a row the latest call was made (counted
                 \* for authenticateUser and getCurrentSession)
  calls,         \* the number of calls of public operations made
  procs,         \* the calls in flight: where each one waits on AsyncStorage
  faults,        \* how many AsyncStorage requests have been rejected
  registered     \* the user records registerUser has returned with success

vars == <<now, authAttempts, storage, last, login, streak, repeats, calls,
          procs, faults, registered>>

\* The state of the calls in flight and of what is observed about them.
asyncVars == <<procs, faults, registered>>

(***************************************************************************)
(* SecurityUtils.encrypt / decrypt, secureStore / secureRetrieve           *)
(***************************************************************************)

\* The values the services hand to secureStore: a plain string, or the
\* JSON.stringify text of a value, kept as that value (JSON.parse gives it
\* back for the arrays and objects of strings and numbers stored here).
Text(s)       == [kind |-> "text", value |-> s]
JsonOf(k, v)  == [kind |-> k, value |-> v]
Null          == [kind |-> "null", value |-> <<>>]
\* item is the string s.
IsString(item, s) == item.kind = "text" /\ item.value = s
\* !item for the result of a retrieval: null or the empty string.
IsFalsy(item) == item.kind = "null" \/ IsString(item, <<>>)

\* encrypt(text, key): btoa of the character-wise XOR of text with the
\* repeated key, kept as the pair it is computed from.
Encrypt(text, key) == [pt |-> text, tk |-> key]

\* The encrypted string is '' exactly when the text is.
IsEmptyCipher(c) == IsString(c.pt, <<>>)

\* decrypt(encryptedText, key): XOR with the same key gives the text back,
\* XOR with another key does not.
Decrypt(c, key) ==
  IF c.tk = key THEN c.pt ELSE [kind |-> "garbled", value |-> <<>>]

\* Logical keys and the two physical keys of each.
USERS_STORAGE_KEY   == <<"app_users", <<>>>>
SESSION_STORAGE_KEY == <<"user_session", <<>>>>
\* The same with one key for the digests of all users.
PwdKeyShared(userId) == <<"pwd_", <<>>>>
PwdKey(userId)      == <<"pwd_", userId>>
SecureSlot(key)     == <<"secure_", key[1], key[2]>>
KeySlot(key)        == <<"key_", key[1], key[2]>>

\* AsyncStorage.setItem.
SetItem(st, slot, item) ==
  [s \in DOMAIN st \cup {slot} |-> IF s = slot THEN item ELSE st[s]]

\* secureStore(key, value) when Date.now() reads t.
SecureStore(st, key, value, t) ==
  LET encryptionKey  == EncryptionKeyOf(t)
      encryptedValue == Encrypt(value, encryptionKey)
  IN  SetItem(SetItem(st, SecureSlot(key), encryptedValue),
              KeySlot(key), KeyHashOf(t))

\* secureRetrieve(key) without the atob of the stored key.
SecureRetrieveNoAtob(st, key) ==
  IF \/ SecureSlot(key) \notin DOMAIN st
     \/ KeySlot(key) \notin DOMAIN st
  THEN Null
  ELSE IF IsEmptyCipher(st[SecureSlot(key)]) \/ st[KeySlot(key)] = <<>>
  THEN Null
  ELSE Decrypt(st[SecureSlot(key)], st[KeySlot(key)])

\* secureRetrieve(key).
SecureRetrieve(st, key) ==
  IF \/ SecureSlot(key) \notin DOMAIN st
     \/ KeySlot(key) \notin DOMAIN st
  THEN Null
  ELSE IF IsEmptyCipher(st[SecureSlot(key)]) \/ st[KeySlot(key)] = <<>>
  THEN Null
  ELSE Decrypt(st[SecureSlot(key)], AtobOf(st[KeySlot(key)]))

(***************************************************************************)
(* SecurityUtils.checkRateLimit / clearSensitiveData                       *)
(***************************************************************************)

\* Math.ceil(n / d) for d > 0.
CeilDiv(n, d) == 0 - ((0 - n) \div d)

NoRemainingTime == 0 - 1

\* now - userAttempts.lastAttempt > 15 * 60 * 1000: the entry is reset.
WindowAlwaysExpired(entry, t) == TRUE
WindowNeverExpires(entry, t) == FALSE
WindowExpired(entry, t) == t - entry.lastAttempt > RateLimitWindow

\* userAttempts.count >= 5: the call is denied.
LockedOutNever(entry) == FALSE
LockedOutAboveFive(entry) == entry.count > MaxAttempts
LockedOut(entry) == entry.count >= MaxAttempts

\* The remainingTime of a denial, in seconds.
RemainingTimeElapsed(entry, t) == CeilDiv(t - entry.lastAttempt, 1000)
RemainingTime(entry, t) ==
  CeilDiv(RateLimitWindow - (t - entry.lastAttempt), 1000)

\* The same, a denied call writing its clock reading into the entry.
CheckRateLimitDenialRecorded(attempts, username, t) ==
  IF username \notin DOMAIN attempts \/ WindowExpired(attempts[username], t)
  THEN [allowed |-> TRUE, remainingTime |-> NoRemainingTime,
        attempts |-> SetItem(attempts, username, [count |-> 1, lastAttempt |-> t])]
  ELSE IF LockedOut(attempts[username])
  THEN [allowed |-> FALSE,
        remainingTime |-> RemainingTime(attempts[username], t),
        attempts |-> SetItem(attempts, username,
                       [count |-> attempts[username].count, lastAttempt |-> t])]
  ELSE [allowed |-> TRUE, remainingTime |-> NoRemainingTime,
        attempts |-> SetItem(attempts, username,
                       [count |-> attempts[username].count + 1, lastAttempt |-> t])]

\* The same, the count of an entry not being written back by an allowed
\* call.
CheckRateLimitUnrecorded(attempts, username, t) ==
  IF username \notin DOMAIN attempts
  THEN [allowed |-> TRUE, remainingTime |-> NoRemainingTime,
        attempts |-> SetItem(attempts, username, [count |-> 1, lastAttempt |-> t])]
  ELSE IF ~WindowExpired(attempts[username], t) /\ LockedOut(attempts[username])
  THEN [allowed |-> FALSE,
        remainingTime |-> RemainingTime(attempts[username], t),
        attempts |-> attempts]
  ELSE [allowed |-> TRUE, remainingTime |-> NoRemainingTime, attempts |-> attempts]

\* checkRateLimit(username) when Date.now() reads t: the result and the
\* table it leaves.
CheckRateLimit(attempts, username, t) ==
  IF username \notin DOMAIN attempts
  THEN [allowed |-> TRUE, remainingTime |-> NoRemainingTime,
        attempts |-> SetItem(attempts, username, [count |-> 1, lastAttempt |-> t])]
  ELSE IF WindowExpired(attempts[username], t)
  THEN [allowed |-> TRUE, remainingTime |-> NoRemainingTime,
        attempts |-> SetItem(attempts, username, [count |-> 1, lastAttempt |-> t])]
  ELSE IF LockedOut(attempts[username])
  THEN [allowed |-> FALSE,
        remainingTime |-> RemainingTime(attempts[username], t),
        attempts |-> attempts]
  ELSE [allowed |-> TRUE, remainingTime |-> NoRemainingTime,
        attempts |-> SetItem(attempts, username,
                       [count |-> attempts[username].count + 1, lastAttempt |-> t])]

\* clearSensitiveData().
ClearSensitiveData == <<>>

(***************************************************************************)
(* AuthService                                                             *)
(***************************************************************************)

NoUser == [username |-> <<>>, userId |-> <<>>, createdAt |-> 0 - 1]

\* A result {success, error, user}; an error message is the sequence of the
\* pieces it is concatenated from.
Failure(error) == [success |-> FALSE, error |-> error, user |-> NoUser]
Success(user)  == [success |-> TRUE, error |-> <<>>, user |-> user]

\* errors.join(', ').
RECURSIVE Join(_)
Join(errors) ==
  IF Len(errors) <= 1 THEN errors
  ELSE <<Head(errors), ", ">> \o Join(Tail(errors))

\* getStoredUsers().
GetStoredUsers(st) ==
  LET usersData == SecureRetrieve(st, USERS_STORAGE_KEY)
  IN  IF IsFalsy(usersData) THEN <<>>
      ELSE IF usersData.kind = "users" THEN usersData.value
      ELSE <<>>

\* The same, looking at the first user only.
UsernameExistsFirstOnly(users, username) ==
  Len(users) > 0 /\ users[1].username = username

\* The same, finding no user.
UsernameExistsNever(users, username) == FALSE

\* existingUsers.some(user => user.username === username).
UsernameExists(users, username) ==
  \E i \in 1..Len(users) : users[i].username = username

\* The messages of authenticateUser for a user that is not found and for a
\* password digest that differs.
UnknownUserErrorDistinct == <<"User not found">>
UnknownUserError   == <<"Invalid username or password">>
WrongPasswordError == <<"Invalid username or password">>

\* The same, taking the first user of the registry.
FindUserFirst(users, username) ==
  IF Len(users) > 0 THEN users[1] ELSE NoUser

\* users.find(u => u.username === username), NoUser when there is none.
FindUser(users, username) ==
  IF \E i \in 1..Len(users) : users[i].username = username
  THEN users[CHOOSE i \in 1..Len(users) :
               /\ users[i].username = username
               /\ \A j \in 1..(i - 1) : users[j].username # username]
  ELSE NoUser

\* registerUser(credentials) when Date.now() reads t: the result and the
\* storage it leaves.
RegisterUser(st, credentials, t) ==
  LET usernameValidation == Validated(credentials.username, "username")
      passwordValidation == Validated(credentials.password, "password")
      existingUsers == GetStoredUsers(st)
      user == [username  |-> usernameValidation.sanitized,
               userId    |-> UserIdOf(usernameValidation.sanitized, t),
               createdAt |-> t]
      passwordHash == HashOf(passwordValidation.sanitized)
      st1 == SecureStore(st, PwdKey(user.userId), Text(passwordHash), t)
      updatedUsers == Append(existingUsers, user)
      st2 == SecureStore(st1, USERS_STORAGE_KEY, JsonOf("users", updatedUsers), t)
  IN  IF ~usernameValidation.isValid
      THEN [result |-> Failure(Join(usernameValidation.errors)), storage |-> st]
      ELSE IF ~passwordValidation.isValid
      THEN [result |-> Failure(Join(passwordValidation.errors)), storage |-> st]
      ELSE IF IsWeakPassword(credentials.password)
      THEN [result |-> Failure(<<"Password is too common. Please choose a stronger password.">>),
            storage |-> st]
      ELSE IF UsernameExists(existingUsers, usernameValidation.sanitized)
      THEN [result |-> Failure(<<"Username already exists">>), storage |-> st]
      ELSE [result |-> Success(user), storage |-> st2]

\* createSession(user) that stores nothing.
CreateSessionNotStored(st, user, t) == st

\* createSession(user) when Date.now() reads t.
CreateSession(st, user, t) ==
  LET sessionData ==
        [userId    |-> user.userId,
         username  |-> user.username,
         loginTime |-> t,
         sessionId |-> SessionIdOf(user.username, t)]
  IN  SecureStore(st, SESSION_STORAGE_KEY, JsonOf("session", sessionData), t)

\* What checkRateLimit returned to the latest call (checked: it was called),
\* and the count it read (prior, 0 when the username had no entry).
NoRateLimit ==
  [checked |-> FALSE, allowed |-> TRUE, remainingTime |-> NoRemainingTime,
   prior |-> 0]

\* The message of a throttled authenticateUser: the remaining time in
\* minutes, rounded up.
ThrottleErrorGeneric(remainingTime) == <<"Invalid username or password">>
ThrottleError(remainingTime) ==
  <<"Too many failed attempts. Please try again in ">>
    \o NumToString(CeilDiv(remainingTime, 60), 10)
    \o <<" minutes.">>

\* authenticateUser(credentials) with a success that removes the entry of
\* the username from the table of attempts.
AuthenticateUserForgiving(st, attempts, credentials, t) ==
  LET usernameValidation == Validated(credentials.username, "username")
      passwordValidation == Validated(credentials.password, "password")
      rateLimit == CheckRateLimit(attempts, usernameValidation.sanitized, t)
      rate == [checked |-> TRUE, allowed |-> rateLimit.allowed,
               remainingTime |-> rateLimit.remainingTime,
               prior |-> IF usernameValidation.sanitized \in DOMAIN attempts
                         THEN attempts[usernameValidation.sanitized].count
                         ELSE 0]
      users == GetStoredUsers(st)
      user == FindUser(users, usernameValidation.sanitized)
      storedPasswordHash == SecureRetrieve(st, PwdKey(user.userId))
      inputPasswordHash == HashOf(passwordValidation.sanitized)
  IN  IF ~usernameValidation.isValid \/ ~passwordValidation.isValid
      THEN [result |-> Failure(<<"Invalid username or password format">>),
            rate |-> NoRateLimit, storage |-> st, attempts |-> attempts,
            reads |-> {}]
      ELSE IF ~rateLimit.allowed
      THEN [result |-> Failure(ThrottleError(rateLimit.remainingTime)),
            rate |-> rate, storage |-> st, attempts |-> rateLimit.attempts,
            reads |-> {}]
      ELSE IF user = NoUser
      THEN [result |-> Failure(UnknownUserError),
            rate |-> rate, storage |-> st, attempts |-> rateLimit.attempts,
            reads |-> {USERS_STORAGE_KEY}]
      ELSE IF ~IsString(storedPasswordHash, inputPasswordHash)
      THEN [result |-> Failure(WrongPasswordError),
            rate |-> rate, storage |-> st, attempts |-> rateLimit.attempts,
            reads |-> {USERS_STORAGE_KEY, PwdKey(user.userId)}]
      ELSE [result |-> Success(user),
            rate |-> rate, storage |-> CreateSession(st, user, t),
            attempts |-> [u \in DOMAIN rateLimit.attempts \ {user.username} |->
                           rateLimit.attempts[u]],
            reads |-> {USERS_STORAGE_KEY, PwdKey(user.userId)}]

\* authenticateUser(credentials) when Date.now() reads t: the result, what
\* checkRateLimit returned to it, the storage and table it leaves, and the
\* logical keys it read with secureRetrieve (reads).
AuthenticateUser(st, attempts, credentials, t) ==
  LET usernameValidation == Validated(credentials.username, "username")
      passwordValidation == Validated(credentials.password, "password")
      rateLimit == CheckRateLimit(attempts, usernameValidation.sanitized, t)
      rate == [checked |-> TRUE, allowed |-> rateLimit.allowed,
               remainingTime |-> rateLimit.remainingTime,
               prior |-> IF usernameValidation.sanitized \in DOMAIN attempts
                         THEN attempts[usernameValidation.sanitized].count
                         ELSE 0]
      users == GetStoredUsers(st)
      user == FindUser(users, usernameValidation.sanitized)
      storedPasswordHash == SecureRetrieve(st, PwdKey(user.userId))
      inputPasswordHash == HashOf(passwordValidation.sanitized)
  IN  IF ~usernameValidation.isValid \/ ~passwordValidation.isValid
      THEN [result |-> Failure(<<"Invalid username or password format">>),
            rate |-> NoRateLimit, storage |-> st, attempts |-> attempts,
            reads |-> {}]
      ELSE IF ~rateLimit.allowed
      THEN [result |-> Failure(ThrottleError(rateLimit.remainingTime)),
            rate |-> rate, storage |-> st, attempts |-> rateLimit.attempts,
            reads |-> {}]
      ELSE IF user = NoUser
      THEN [result |-> Failure(UnknownUserError),
            rate |-> rate, storage |-> st, attempts |-> rateLimit.attempts,
            reads |-> {USERS_STORAGE_KEY}]
      ELSE IF ~IsString(storedPasswordHash, inputPasswordHash)
      THEN [result |-> Failure(WrongPasswordError),
            rate |-> rate, storage |-> st, attempts |-> rateLimit.attempts,
            reads |-> {USERS_STORAGE_KEY, PwdKey(user.userId)}]
      ELSE [result |-> Success(user),
            rate |-> rate, storage |-> CreateSession(st, user, t),
            attempts |-> rateLimit.attempts,
            reads |-> {USERS_STORAGE_KEY, PwdKey(user.userId)}]

\* logout() that empties the session and leaves the attempts.
LogoutKeepsAttempts(st, attempts, t) ==
  [storage  |-> SecureStore(st, SESSION_STORAGE_KEY, Text(<<>>), t),
   attempts |-> attempts]

\* logout() that clears the attempts and leaves the session stored.
LogoutKeepsSession(st, attempts, t) ==
  [storage |-> st, attempts |-> ClearSensitiveData]

\* logout() when Date.now() reads t.
LogoutEffect(st, attempts, t) ==
  [storage  |-> SecureStore(st, SESSION_STORAGE_KEY, Text(<<>>), t),
   attempts |-> ClearSensitiveData]

\* Date.now() - session.loginTime > 24 * 60 * 60 * 1000.
SessionExpiresAfterWeek(session, t) == t - session.loginTime > 7 * SessionLifetime
SessionExpiresAtLifetime(session, t) == t - session.loginTime >= SessionLifetime
IsSessionExpired(session, t) == t - session.loginTime > SessionLifetime

\* getCurrentSession() that empties an expired session and leaves the table
\* of attempts.
GetCurrentSessionKeepsAttempts(st, attempts, t) ==
  LET sessionData == SecureRetrieve(st, SESSION_STORAGE_KEY)
      session == sessionData.value
  IN  IF IsFalsy(sessionData)
      THEN [user |-> NoUser, storage |-> st, attempts |-> attempts]
      ELSE IF sessionData.kind # "session"
      THEN [user |-> NoUser, storage |-> st, attempts |-> attempts]
      ELSE IF IsSessionExpired(session, t)
      THEN [user |-> NoUser,
            storage |-> LogoutEffect(st, attempts, t).storage,
            attempts |-> attempts]
      ELSE [user |-> [username  |-> session.username,
                      userId    |-> session.userId,
                      createdAt |-> session.loginTime],
            storage |-> st, attempts |-> attempts]

\* getCurrentSession() when Date.now() reads t: the user returned (NoUser
\* for null) and the storage and table it leaves.
GetCurrentSessionEffect(st, attempts, t) ==
  LET sessionData == SecureRetrieve(st, SESSION_STORAGE_KEY)
      session == sessionData.value
  IN  IF IsFalsy(sessionData)
      THEN [user |-> NoUser, storage |-> st, attempts |-> attempts]
      ELSE IF sessionData.kind # "session"
      THEN [user |-> NoUser, storage |-> st, attempts |-> attempts]
      ELSE IF IsSessionExpired(session, t)
      THEN [user |-> NoUser,
            storage |-> LogoutEffect(st, attempts, t).storage,
            attempts |-> LogoutEffect(st, attempts, t).attempts]
      ELSE [user |-> [username  |-> session.username,
                      userId    |-> session.userId,
                      createdAt |-> session.loginTime],
            storage |-> st, attempts |-> attempts]

\* initializeDemoUsers() when Date.now() reads t.
InitializeDemoUsersEffect(st, t) ==
  IF Len(GetStoredUsers(st)) = 0
  THEN RegisterUser(RegisterUser(st, DemoCredentials[1], t).storage,
                    DemoCredentials[2], t).storage
  ELSE st

(***************************************************************************)
(* The public operations as actions                                        *)
(***************************************************************************)

\* The usernames locked out when the clock reads t: five attempts counted,
\* the last of them at most 15 minutes ago.
LockedOutUsers(attempts, t) ==
  {u \in DOMAIN attempts :
     attempts[u].count >= 5 /\ t - attempts[u].lastAttempt <= FifteenMinutes}

\* last.time: the clock reading of the call; last.afterRegister: the call is
\* authenticateUser with the credentials of the call just before it, which
\* was a successful registerUser; last.unlocked: the usernames that were
\* locked out when the call, a logout, was made (carried over by the
\* authenticateUser that follows it); last.reads: the logical keys the call,
\* an authenticateUser, read.
NoCall ==
  [op |-> "none", username |-> <<>>, password |-> <<>>, time |-> 0,
   afterRegister |-> FALSE, result |-> Failure(<<>>), rate |-> NoRateLimit,
   unlocked |-> {}, reads |-> {}]

\* login.before: the username logged in when the call was made, if any.
NoLogin == [state |-> "none", user |-> NoUser, time |-> 0, before |-> <<>>]
LoggedIn(l) == IF l.state = "in" THEN l.user.username ELSE <<>>

\* The number of calls op(u, p) in a row, this one included.
Repeats(op, u, p) ==
  IF last.op = op /\ last.username = u /\ last.password = p
  THEN repeats + 1 ELSE 1

NoStreak == [username |-> <<>>, n |-> 0, time |-> 0]

\* The calls that can be in flight at once: the JavaScript event loop runs
\* one call until its next await, then any other call that is ready.
Procs == {1, 2}

\* A call in flight waits on one AsyncStorage request.  op: the public
\* operation; phase: which secureRetrieve / secureStore of the operation is
\* running; pc: the request awaited ("getSecure", "getKey", "setSecure",
\* "setKey"); key, value, kt: the logical key, the value and the clock
\* reading of that secureStore; secure: what the first getItem of a
\* secureRetrieve returned; users, user: the locals existingUsers and user;
\* rejected: AsyncStorage has rejected a request of the call; failed: the
\* phase and request of the latest one rejected.
IdleProc ==
  [op |-> "idle", phase |-> "none", pc |-> "idle",
   username |-> <<>>, password |-> <<>>,
   key |-> <<>>, value |-> Null, kt |-> 0,
   secure |-> [has |-> FALSE, cipher |-> Encrypt(Null, <<>>)],
   users |-> <<>>, user |-> NoUser,
   result |-> Failure(<<>>), raised |-> FALSE, rejected |-> FALSE,
   failed |-> <<"none", "idle">>]

NoProcs == [i \in Procs |-> IdleProc]

Init ==
  /\ now = StartTime
  /\ authAttempts = <<>>
  /\ storage = <<>>
  /\ last = NoCall
  /\ login = NoLogin
  /\ streak = NoStreak
  /\ repeats = 0
  /\ calls = 0
  /\ procs = NoProcs
  /\ faults = 0
  /\ registered = {}

\* Time passes: the clock is read at the start and at one later instant.
Tick ==
  /\ now = StartTime
  /\ \E t \in Times : t > now /\ now' = t
  /\ UNCHANGED <<authAttempts, storage, last, login, streak, repeats, calls, asyncVars>>

Register(u, p) ==
  \E r \in {RegisterUser(storage, [username |-> u, password |-> p], now)} :
      /\ storage' = r.storage
      /\ last' = [op |-> "registerUser", username |-> u, password |-> p,
                  time |-> now, afterRegister |-> FALSE,
                  result |-> r.result, rate |-> NoRateLimit,
                  unlocked |-> {}, reads |-> {}]
      /\ repeats' = 0
      /\ calls' = calls + 1
      /\ UNCHANGED <<now, authAttempts, login, streak, asyncVars>>

\* How many checkRateLimit calls in a row were made for a username since it
\* had no entry, each at most one window after the one before (n = 0: the
\* run began before the username's entry was last absent, or was broken).
NextStreak(s, attempts, username, t) ==
  IF username \notin DOMAIN attempts
  THEN [username |-> username, n |-> 1, time |-> t]
  ELSE IF s.username = username /\ s.n > 0 /\ t - s.time <= FifteenMinutes
  THEN [username |-> username, n |-> s.n + 1, time |-> t]
  ELSE [username |-> username, n |-> 0, time |-> t]

Authenticate(u, p) ==
  \E r \in {AuthenticateUser(storage, authAttempts, [username |-> u, password |-> p], now)} :
      /\ storage' = r.storage
      /\ authAttempts' = r.attempts
      /\ last' = [op |-> "authenticateUser", username |-> u, password |-> p,
                  time |-> now,
                  afterRegister |-> /\ last.op = "registerUser"
                                    /\ last.result.success
                                    /\ last.username = u
                                    /\ last.password = p,
                  result |-> r.result, rate |-> r.rate,
                  unlocked |-> IF last.op = "logout" THEN last.unlocked ELSE {},
                  reads |-> r.reads]
      /\ login' = IF r.result.success
                  THEN [state |-> "in", user |-> r.result.user, time |-> now,
                        before |-> LoggedIn(login)]
                  ELSE login
      /\ streak' = IF r.rate.checked
                   THEN NextStreak(streak, authAttempts, Validated(u, "username").sanitized, now)
                   ELSE streak
      /\ repeats' = Repeats("authenticateUser", u, p)
      /\ calls' = calls + 1
      /\ UNCHANGED <<now, asyncVars>>

GetCurrentSession ==
  \E r \in {GetCurrentSessionEffect(storage, authAttempts, now)} :
      /\ storage' = r.storage
      /\ authAttempts' = r.attempts
      /\ last' = [op |-> "getCurrentSession", username |-> <<>>, password |-> <<>>,
                  time |-> now, afterRegister |-> FALSE,
                  result |-> [success |-> r.user # NoUser, error |-> <<>>, user |-> r.user],
                  rate |-> NoRateLimit, unlocked |-> {}, reads |-> {}]
      /\ repeats' = Repeats("getCurrentSession", <<>>, <<>>)
      /\ calls' = calls + 1
      /\ UNCHANGED <<now, login, streak, asyncVars>>

Logout ==
  \E r \in {LogoutEffect(storage, authAttempts, now)} :
      /\ storage' = r.storage
      /\ authAttempts' = r.attempts
      /\ last' = [op |-> "logout", username |-> <<>>, password |-> <<>>,
                  time |-> now, afterRegister |-> FALSE,
                  result |-> Success(NoUser), rate |-> NoRateLimit,
                  unlocked |-> LockedOutUsers(authAttempts, now), reads |-> {}]
      /\ login' = [state |-> "out", user |-> NoUser, time |-> now,
                    before |-> LoggedIn(login)]
      /\ repeats' = 0
      /\ calls' = calls + 1
      /\ UNCHANGED <<now, streak, asyncVars>>

InitializeDemoUsers ==
  /\ storage' = InitializeDemoUsersEffect(storage, now)
  /\ last' = [op |-> "initializeDemoUsers", username |-> <<>>, password |-> <<>>,
              time |-> now, afterRegister |-> FALSE,
              result |-> Success(NoUser), rate |-> NoRateLimit,
              unlocked |-> {}, reads |-> {}]
  /\ repeats' = 0
  /\ calls' = calls + 1
  /\ UNCHANGED <<now, authAttempts, login, streak, asyncVars>>

\* Every operation of the service, called one after the other.
Next ==
  \/ Tick
  \/ calls < MaxCalls /\ \E u \in Usernames, p \in Passwords : Register(u, p)
  \/ calls < MaxCalls /\ \E u \in Usernames, p \in Passwords : Authenticate(u, p)
  \/ calls < MaxCalls /\ GetCurrentSession
  \/ calls < MaxCalls /\ Logout
  \/ calls < MaxCalls /\ InitializeDemoUsers

Spec == Init /\ [][Next]_vars

\* Longer runs of registerUser, authenticateUser and logout, long enough for
\* a username to be locked out.
NextLockout ==
  \/ Tick
  \/ calls < MaxLockoutCalls /\ \E u \in LockoutUsernames, p \in Passwords : Register(u, p)
  \/ calls < MaxLockoutCalls /\ \E u \in LockoutUsernames, p \in Passwords : Authenticate(u, p)
  \/ calls < MaxLockoutCalls /\ Logout

SpecLockout == Init /\ [][NextLockout]_vars

\* Runs of registerUser and authenticateUser with strings that fail the
\* format rules and with passwords that differ in few characters.
MaxInputCalls == 4

NextInputs ==
  \/ Tick
  \/ /\ calls < MaxInputCalls
     /\ \E u \in InputUsernames, p \in InputPasswords : Register(u, p)
  \/ /\ calls < MaxInputCalls
     /\ \E u \in InputUsernames, p \in InputPasswords : Authenticate(u, p)

SpecInputs == Init /\ [][NextInputs]_vars

\* Runs of registerUser and authenticateUser with usernames whose user ids
\* can coincide and with passwords of the denylist.
MaxRegisterCalls == 3

NextRegister ==
  \/ Tick
  \/ /\ calls < MaxRegisterCalls
     /\ \E u \in RegisterUsernames, p \in RegisterPasswords : Register(u, p)
  \/ /\ calls < MaxRegisterCalls
     /\ \E u \in RegisterUsernames, p \in RegisterPasswords : Authenticate(u, p)

SpecRegister == Init /\ [][NextRegister]_vars

\* checkRateLimit called on its own, the clock read at instants around the
\* end of a window.
MaxLimiterCalls == 8

LimiterUsernames ==
  { <<"d", "e", "m", "o", "_", "u", "s", "e", "r">>,
    <<"t", "e", "s", "t", "_", "u", "s", "e", "r">> }

LimiterTimes ==
  { StartTime,
    StartTime + FifteenMinutes - 1,
    StartTime + FifteenMinutes,
    StartTime + FifteenMinutes + 1,
    StartTime + 2 * FifteenMinutes + 1 }

\* What the callers have seen of a username: n allowed calls in a row, each
\* at most 15 minutes after the one before, the latest at time; denied
\* calls since then.
NoAllowed == [n |-> 0, time |-> 0, denied |-> 0]

Seen(s, allowed, t) ==
  IF ~allowed THEN [s EXCEPT !.denied = s.denied + 1]
  ELSE IF s.n = 0 \/ t - s.time > FifteenMinutes
  THEN [n |-> 1, time |-> t, denied |-> 0]
  ELSE [n |-> s.n + 1, time |-> t, denied |-> 0]

InitLimiter ==
  /\ now = StartTime
  /\ authAttempts = <<>>
  /\ storage = <<>>
  /\ last = NoCall
  /\ login = NoLogin
  /\ streak = [u \in LimiterUsernames |-> NoAllowed]
  /\ repeats = 0
  /\ calls = 0
  /\ procs = NoProcs
  /\ faults = 0
  /\ registered = {}

\* Time passes.
Advance ==
  /\ \E t \in LimiterTimes : t > now /\ now' = t
  /\ UNCHANGED <<authAttempts, storage, last, login, streak, repeats, calls, asyncVars>>

\* SecurityUtils.checkRateLimit(username) is called.
RateLimitCall(u) ==
  \E r \in {CheckRateLimit(authAttempts, u, now)} :
      /\ authAttempts' = r.attempts
      /\ last' = [op |-> "checkRateLimit", username |-> u, time |-> now,
                  allowed |-> r.allowed, remainingTime |-> r.remainingTime]
      /\ streak' = [streak EXCEPT ![u] = Seen(streak[u], r.allowed, now)]
      /\ calls' = calls + 1
      /\ UNCHANGED <<now, storage, login, repeats, asyncVars>>

NextLimiter ==
  \/ Advance
  \/ calls < MaxLimiterCalls /\ \E u \in LimiterUsernames : RateLimitCall(u)

SpecLimiter == InitLimiter /\ [][NextLimiter]_vars

(***************************************************************************)
(* encrypt / decrypt / secureStore / secureRetrieve on the characters: a   *)
(* string is the sequence of its UTF-16 code units, a base64 string (what  *)
(* btoa returns and AsyncStorage holds) a sequence of characters.          *)
(***************************************************************************)

\* The code units of a string of printable characters.
Codes(s) == [i \in 1..Len(s) |-> Ord(s[i])]

\* a ^ b for code units.
RECURSIVE Xor(_, _)
Xor(a, b) ==
  IF a = 0 THEN b
  ELSE IF b = 0 THEN a
  ELSE ((a + b) % 2) + 2 * Xor(a \div 2, b \div 2)

\* key.charCodeAt(i % key.length) for the i-th character, counted from 1;
\* NaN, which ^ takes as 0, when the key is empty.  KeyCodeZero: the same
\* with the key left out of the XOR.
KeyCodeZero(key, i) == 0
KeyCode(key, i) ==
  IF key = <<>> THEN 0 ELSE key[((i - 1) % Len(key)) + 1]

\* The loop of encrypt and of decrypt: every code unit XORed with the key,
\* repeated.
XorWithKeyAdded(text, key) ==
  [i \in 1..Len(text) |-> text[i] + KeyCode(key, i)]
XorWithKey(text, key) ==
  [i \in 1..Len(text) |-> Xor(text[i], KeyCode(key, i))]

\* btoa raises InvalidCharacterError for a code unit above 255.
BtoaThrows(codes) == \E i \in 1..Len(codes) : codes[i] > 255

\* btoa of code units below 256.
RECURSIVE BtoaCodes(_)
BtoaCodes(codes) ==
  IF codes = <<>> THEN <<>>
  ELSE LET b2 == IF Len(codes) >= 2 THEN codes[2] ELSE 0
           b3 == IF Len(codes) >= 3 THEN codes[3] ELSE 0
           n  == codes[1] * 65536 + b2 * 256 + b3
       IN  << B64(n \div 262144),
              B64((n \div 4096) % 64),
              IF Len(codes) >= 2 THEN B64((n \div 64) % 64) ELSE "=",
              IF Len(codes) >= 3 THEN B64(n % 64) ELSE "=" >> \o
           (IF Len(codes) > 3 THEN BtoaCodes(SubSeq(codes, 4, Len(codes))) ELSE <<>>)

\* atob accepts s: whole groups of four base64 characters, padded at the end.
IsBase64(s) ==
  /\ Len(s) % 4 = 0
  /\ \A i \in 1..Len(s) :
       \/ s[i] \in DOMAIN Base64Values
       \/ /\ s[i] = "="
          /\ i >= Len(s) - 1
          /\ \A j \in (i + 1)..Len(s) : s[j] = "="

\* atob of a padded base64 string, as code units.
RECURSIVE AtobCodes(_)
AtobCodes(s) ==
  IF s = <<>> THEN <<>>
  ELSE LET v3 == IF s[3] = "=" THEN 0 ELSE B64Index(s[3])
           v4 == IF s[4] = "=" THEN 0 ELSE B64Index(s[4])
           n  == B64Index(s[1]) * 262144 + B64Index(s[2]) * 4096 + v3 * 64 + v4
       IN  <<n \div 65536>> \o
           (IF s[3] = "=" THEN <<>> ELSE <<(n \div 256) % 256>>) \o
           (IF s[4] = "=" THEN <<>> ELSE <<n % 256>>) \o
           (IF Len(s) > 4 THEN AtobCodes(SubSeq(s, 5, Len(s))) ELSE <<>>)

\* encrypt(text, key): the base64 string, or threw when btoa raises.
EncryptText(text, key) ==
  IF BtoaThrows(XorWithKey(text, key))
  THEN [threw |-> TRUE, value |-> <<>>]
  ELSE [threw |-> FALSE, value |-> BtoaCodes(XorWithKey(text, key))]

\* decrypt(encryptedText, key): '' when atob raises.
DecryptText(encryptedText, key) ==
  IF ~IsBase64(encryptedText) THEN <<>>
  ELSE XorWithKey(AtobCodes(encryptedText), key)

\* AsyncStorage.getItem: null for a key that is not there.
NoItem == [kind |-> "null", value |-> <<>>]
StringItem(s) == [kind |-> "string", value |-> s]
GetItem(st, slot) ==
  IF slot \in DOMAIN st THEN StringItem(st[slot]) ELSE NoItem

\* !item: null or the empty string.
IsMissingNullOnly(item) == item.kind = "null"
IsMissing(item) == item.kind = "null" \/ item.value = <<>>

\* secureStore(key, value) when Date.now() reads t: threw when it raised
\* 'Failed to store data securely', and the store it leaves.
SecureStoreText(st, key, value, t) ==
  IF EncryptText(value, Codes(EncryptionKeyOf(t))).threw
  THEN [threw |-> TRUE, storage |-> st]
  ELSE [threw |-> FALSE,
        storage |-> SetItem(SetItem(st, SecureSlot(key),
                                    EncryptText(value, Codes(EncryptionKeyOf(t))).value),
                            KeySlot(key), KeyHashOf(t))]

\* secureRetrieve(key): null, or the decrypted string.
SecureRetrieveText(st, key) ==
  IF \/ IsMissing(GetItem(st, SecureSlot(key)))
     \/ IsMissing(GetItem(st, KeySlot(key)))
  THEN NoItem
  ELSE IF ~IsBase64(st[KeySlot(key)])
  THEN NoItem
  ELSE StringItem(DecryptText(st[SecureSlot(key)], AtobCodes(st[KeySlot(key)])))

(***************************************************************************)
(* secureStore, secureRetrieve and the codec called directly               *)
(***************************************************************************)

MaxStoreCalls == 2

\* The logical keys and the values stored: '', strings of one to three
\* characters (every padding of btoa), one longer than the transform key,
\* the first character of the transform key, a Latin-1 letter (code 233) and
\* the euro sign (code 8364).
StoreKeys == {USERS_STORAGE_KEY, SESSION_STORAGE_KEY}
StoreValues ==
  { <<>>,
    Codes(<<"a">>), Codes(<<"a", "b">>), Codes(<<"a", "b", "c">>),
    Codes(<<"P", "a", "s", "s", "w", "o", "r", "d", "1", "2", "3">>),
    Codes(<<"R">>), <<233>>, <<8364>> }

\* The keys handed to encrypt and decrypt: '', one and three characters, and
\* a transform key of secureStore.
CodecKeys ==
  { <<>>, Codes(<<"k">>), Codes(<<"k", "e", "y">>),
    Codes(GetEncryptionKey(StartTime)) }

\* What AsyncStorage holds at the start for the registry key: each of its
\* two physical entries is absent, empty, or what secureStore wrote for
\* "abc".
StoreDisks ==
  LET secure == SecureSlot(USERS_STORAGE_KEY)
      key    == KeySlot(USERS_STORAGE_KEY)
      full   == SecureStoreText(<<>>, USERS_STORAGE_KEY,
                                Codes(<<"a", "b", "c">>), StartTime).storage
      Entry(slot) == {<<>>, SetItem(<<>>, slot, <<>>), SetItem(<<>>, slot, full[slot])}
  IN  {[s \in DOMAIN a \cup DOMAIN b |-> IF s \in DOMAIN a THEN a[s] ELSE b[s]] :
         a \in Entry(secure), b \in Entry(key)}

\* last.stored: the call is secureRetrieve(key) and the call before it was
\* secureStore(key, last.value); last.threw: that secureStore, or the
\* encrypt of the call, raised.
NoStoreCall ==
  [op |-> "none", key |-> <<>>, value |-> <<>>, threw |-> FALSE,
   stored |-> FALSE, result |-> NoItem]

InitStore ==
  /\ now = StartTime
  /\ authAttempts = <<>>
  /\ storage \in StoreDisks
  /\ last = NoStoreCall
  /\ login = NoLogin
  /\ streak = NoStreak
  /\ repeats = 0
  /\ calls = 0
  /\ procs = NoProcs
  /\ faults = 0
  /\ registered = {}

StoreCall(key, value) ==
  \E r \in {SecureStoreText(storage, key, value, now)} :
      /\ storage' = r.storage
      /\ last' = [op |-> "secureStore", key |-> key, value |-> value,
                  threw |-> r.threw, stored |-> FALSE, result |-> NoItem]
      /\ calls' = calls + 1
      /\ UNCHANGED <<now, authAttempts, login, streak, repeats, asyncVars>>

RetrieveCall(key) ==
  /\ last' = [op |-> "secureRetrieve", key |-> key,
              value  |-> IF last.op = "secureStore" THEN last.value ELSE <<>>,
              threw  |-> last.op = "secureStore" /\ last.threw,
              stored |-> last.op = "secureStore" /\ last.key = key,
              result |-> SecureRetrieveText(storage, key)]
  /\ calls' = calls + 1
  /\ UNCHANGED <<now, authAttempts, storage, login, streak, repeats, asyncVars>>

\* decrypt(encrypt(text, key), key).
CodecCall(text, key) ==
  \E e \in {EncryptText(text, key)} :
      /\ last' = [op |-> "decrypt", key |-> key, value |-> text,
                  threw |-> e.threw, stored |-> FALSE,
                  result |-> IF e.threw THEN NoItem
                             ELSE StringItem(DecryptText(e.value, key))]
      /\ calls' = calls + 1
      /\ UNCHANGED <<now, authAttempts, storage, login, streak, repeats, asyncVars>>

NextStore ==
  \/ Tick
  \/ calls < MaxStoreCalls /\ \E k \in StoreKeys, v \in StoreValues : StoreCall(k, v)
  \/ calls < MaxStoreCalls /\ \E k \in StoreKeys : RetrieveCall(k)
  \/ calls < MaxStoreCalls /\ \E v \in StoreValues, k \in CodecKeys : CodecCall(v, k)

SpecStore == InitStore /\ [][NextStore]_vars

(***************************************************************************)
(* The operations await by await                                           *)
(*                                                                         *)
(* Every await of AuthService and SecurityUtils is an AsyncStorage         *)
(* request.  A call runs up to its next request in one step; the request   *)
(* is then served, or rejected, and the call runs on to the request after  *)
(* it.  Between two steps of one call any other call may take steps.       *)
(***************************************************************************)

\* The bounds of the runs with rejected requests and with overlapping calls.
MaxFaultCalls   == 3
MaxFaults       == 1
MaxOverlapCalls == 2

\* The value of a public operation that returns a user or null
\* (getCurrentSession) or nothing (logout).
Returned(user) == [success |-> user # NoUser, error |-> <<>>, user |-> user]

\* The call returns.
Done(p, result) == [p EXCEPT !.pc = "done", !.result = result]

\* The call enters secureRetrieve(key): its first getItem is awaited.
Retrieve(p, phase, key) ==
  [p EXCEPT !.phase = phase, !.pc = "getSecure", !.key = key]

\* The call enters secureStore(key, value) when Date.now() reads t: the
\* encryption key is computed and the first setItem is awaited.
Store(p, phase, key, value, t) ==
  [p EXCEPT !.phase = phase, !.pc = "setSecure", !.key = key,
            !.value = value, !.kt = t]

\* The synchronous start of a call, up to its first await: the call in
\* flight (or returned) and the table of attempts.
BeginCall(call, attempts, t) ==
  LET p == [IdleProc EXCEPT !.op = call.op, !.username = call.username,
                            !.password = call.password]
      usernameValidation == Validated(call.username, "username")
      passwordValidation == Validated(call.password, "password")
      rateLimit == CheckRateLimit(attempts, usernameValidation.sanitized, t)
  IN  CASE call.op = "registerUser" ->
             [attempts |-> attempts,
              proc |->
                IF ~usernameValidation.isValid
                THEN Done(p, Failure(Join(usernameValidation.errors)))
                ELSE IF ~passwordValidation.isValid
                THEN Done(p, Failure(Join(passwordValidation.errors)))
                ELSE IF IsWeakPassword(call.password)
                THEN Done(p, Failure(<<"Password is too common. Please choose a stronger password.">>))
                ELSE Retrieve(p, "users", USERS_STORAGE_KEY)]
        [] call.op = "authenticateUser" ->
             IF ~usernameValidation.isValid \/ ~passwordValidation.isValid
             THEN [attempts |-> attempts,
                   proc |-> Done(p, Failure(<<"Invalid username or password format">>))]
             ELSE IF ~rateLimit.allowed
             THEN [attempts |-> rateLimit.attempts,
                   proc |-> Done(p, Failure(ThrottleError(rateLimit.remainingTime)))]
             ELSE [attempts |-> rateLimit.attempts,
                   proc |-> Retrieve(p, "users", USERS_STORAGE_KEY)]
        [] call.op = "getCurrentSession" ->
             [attempts |-> attempts,
              proc |-> Retrieve(p, "session", SESSION_STORAGE_KEY)]
        [] call.op = "logout" ->
             [attempts |-> attempts,
              proc |-> Store(p, "logout", SESSION_STORAGE_KEY, Text(<<>>), t)]

\* What the first getItem of secureRetrieve returned.
ReadItem(st, slot) ==
  IF slot \in DOMAIN st THEN [has |-> TRUE, cipher |-> st[slot]]
  ELSE [has |-> FALSE, cipher |-> Encrypt(Null, <<>>)]

\* The value of secureRetrieve(key) once its second getItem is served, the
\* first one having returned secure.
Retrieved(secure, st, key) ==
  IF ~secure.has \/ KeySlot(key) \notin DOMAIN st
  THEN Null
  ELSE IF IsEmptyCipher(secure.cipher) \/ st[KeySlot(key)] = <<>>
  THEN Null
  ELSE Decrypt(secure.cipher, AtobOf(st[KeySlot(key)]))

\* getStoredUsers() on what secureRetrieve returned.
UsersOf(usersData) ==
  IF IsFalsy(usersData) THEN <<>>
  ELSE IF usersData.kind = "users" THEN usersData.value
  ELSE <<>>

\* The call goes on after secureRetrieve returned data, Date.now() reading t.
AfterRetrieve(p, data, t) ==
  LET username == Validated(p.username, "username").sanitized
      password == Validated(p.password, "password").sanitized
      existingUsers == UsersOf(data)
      newUser == [username |-> username, userId |-> UserIdOf(username, t),
                  createdAt |-> t]
      found == FindUser(existingUsers, username)
      sessionData ==
        [userId    |-> p.user.userId,
         username  |-> p.user.username,
         loginTime |-> t,
         sessionId |-> SessionIdOf(p.user.username, t)]
  IN  CASE p.op = "registerUser" ->
             IF UsernameExists(existingUsers, username)
             THEN Done(p, Failure(<<"Username already exists">>))
             ELSE Store([p EXCEPT !.users = existingUsers, !.user = newUser],
                        "pwd", PwdKey(newUser.userId),
                        Text(HashOf(password)), t)
        [] p.op = "authenticateUser" /\ p.phase = "users" ->
             IF found = NoUser
             THEN Done(p, Failure(UnknownUserError))
             ELSE Retrieve([p EXCEPT !.users = existingUsers, !.user = found],
                           "pwd", PwdKey(found.userId))
        [] p.op = "authenticateUser" /\ p.phase = "pwd" ->
             IF ~IsString(data, HashOf(password))
             THEN Done(p, Failure(WrongPasswordError))
             ELSE Store(p, "session", SESSION_STORAGE_KEY,
                        JsonOf("session", sessionData), t)
        [] p.op = "getCurrentSession" ->
             IF IsFalsy(data) \/ data.kind # "session"
             THEN Done(p, Returned(NoUser))
             ELSE IF IsSessionExpired(data.value, t)
             THEN Store(p, "logout", SESSION_STORAGE_KEY, Text(<<>>), t)
             ELSE Done(p, Returned([username  |-> data.value.username,
                                    userId    |-> data.value.userId,
                                    createdAt |-> data.value.loginTime]))

\* The call goes on after secureStore returned, Date.now() reading t.
AfterStore(p, t) ==
  CASE p.op = "registerUser" /\ p.phase = "pwd" ->
         Store(p, "users", USERS_STORAGE_KEY,
               JsonOf("users", Append(p.users, p.user)), t)
    [] p.op = "registerUser" /\ p.phase = "users" -> Done(p, Success(p.user))
    [] p.op = "authenticateUser" -> Done(p, Success(p.user))
    [] p.op = "getCurrentSession" -> Done(p, Returned(NoUser))
    [] p.op = "logout" -> Done(p, Returned(NoUser))

\* The operations whose body is a try with a catch that returns; the same
\* with authenticateUser left open (createSession has no try of its own),
\* and with logout left open.
CatchesAllButAuthenticate(op) == op # "authenticateUser"
CatchesNotLogout(op) == op # "logout"
Catches(op) ==
  op \in {"registerUser", "authenticateUser", "getCurrentSession", "logout"}

\* What the catch of the operation returns.
CaughtResult(op) ==
  CASE op = "registerUser" ->
         Failure(<<"Registration failed. Please try again.">>)
    [] op = "authenticateUser" ->
         Failure(<<"Authentication failed. Please try again.">>)
    [] OTHER -> Returned(NoUser)

\* secureStore threw 'Failed to store data securely': the operation's catch
\* returns, or the error reaches the caller.  OnThrowDigestSkipped: the same
\* with registerUser going on to the registry write when the digest write
\* threw.
OnThrowDigestSkipped(p) ==
  IF p.op = "registerUser" /\ p.phase = "pwd" THEN AfterStore(p, p.kt)
  ELSE IF Catches(p.op) THEN Done(p, CaughtResult(p.op))
  ELSE [Done(p, Returned(NoUser)) EXCEPT !.raised = TRUE]
OnThrow(p) ==
  IF Catches(p.op) THEN Done(p, CaughtResult(p.op))
  ELSE [Done(p, Returned(NoUser)) EXCEPT !.raised = TRUE]

\* The request the call awaits is served (ok) or rejected, and the call
\* runs on to its next await or to its return.
Resume(p, st, attempts, t, ok) ==
  CASE p.pc = "getSecure" ->
         [storage |-> st, attempts |-> attempts,
          proc |-> IF ok
                   THEN [p EXCEPT !.pc = "getKey",
                                  !.secure = ReadItem(st, SecureSlot(p.key))]
                   ELSE AfterRetrieve(p, Null, t)]
    [] p.pc = "getKey" ->
         [storage |-> st, attempts |-> attempts,
          proc |-> AfterRetrieve(p, IF ok THEN Retrieved(p.secure, st, p.key)
                                    ELSE Null, t)]
    [] p.pc = "setSecure" ->
         IF ok
         THEN [storage |-> SetItem(st, SecureSlot(p.key),
                                   Encrypt(p.value, EncryptionKeyOf(p.kt))),
               attempts |-> attempts,
               proc |-> [p EXCEPT !.pc = "setKey"]]
         ELSE [storage |-> st, attempts |-> attempts, proc |-> OnThrow(p)]
    [] p.pc = "setKey" ->
         IF ok
         THEN [storage |-> SetItem(st, KeySlot(p.key), KeyHashOf(p.kt)),
               attempts |-> IF p.phase = "logout" THEN ClearSensitiveData
                            ELSE attempts,
               proc |-> AfterStore(p, t)]
         ELSE [storage |-> st, attempts |-> attempts, proc |-> OnThrow(p)]

\* The calls made in these runs.
AsyncCredentials == {DemoCredentials[i] : i \in 1..2}
AsyncCalls ==
  {[op |-> op, username |-> c.username, password |-> c.password] :
     op \in {"registerUser", "authenticateUser"}, c \in AsyncCredentials}
  \cup {[op |-> op, username |-> <<>>, password |-> <<>>] :
          op \in {"getCurrentSession", "logout"}}

\* What is observed of a call that returned: last.raised tells that an
\* error reached the caller instead of a value, last.rejected that
\* AsyncStorage rejected a request of the call (last.failed: which one);
\* last.user: the local user of the call; last.proc is the call.
AsyncReturn(i, p, t) ==
  [op |-> p.op, username |-> p.username, password |-> p.password,
   time |-> t, result |-> p.result, raised |-> p.raised,
   rejected |-> p.rejected, failed |-> p.failed, user |-> p.user,
   proc |-> i]

\* Call i has run up to p: it waits there, or it has returned.
Settle(i, p) ==
  IF p.pc = "done"
  THEN /\ procs' = [procs EXCEPT ![i] = IdleProc]
       /\ last' = AsyncReturn(i, p, now)
       /\ registered' =
            IF p.op = "registerUser" /\ ~p.raised /\ p.result.success
            THEN registered \cup {p.result.user} ELSE registered
  ELSE /\ procs' = [procs EXCEPT ![i] = p]
       /\ UNCHANGED <<last, registered>>

\* A public operation is called.
StartCall(i, call) ==
  /\ procs[i].op = "idle"
  /\ \E r \in {BeginCall(call, authAttempts, now)} :
       /\ authAttempts' = r.attempts
       /\ Settle(i, r.proc)
  /\ calls' = calls + 1
  /\ UNCHANGED <<now, storage, login, streak, repeats, faults>>

\* AsyncStorage serves the request call i awaits.
Serve(i) ==
  /\ procs[i].op # "idle"
  /\ \E r \in {Resume(procs[i], storage, authAttempts, now, TRUE)} :
       /\ storage' = r.storage
       /\ authAttempts' = r.attempts
       /\ Settle(i, r.proc)
  /\ UNCHANGED <<now, login, streak, repeats, calls, faults>>

\* AsyncStorage rejects the request call i awaits.
Reject(i) ==
  /\ procs[i].op # "idle"
  /\ \E r \in {Resume([procs[i] EXCEPT
                          !.rejected = TRUE,
                          !.failed = <<procs[i].phase, procs[i].pc>>],
                        storage, authAttempts, now, FALSE)} :
       /\ storage' = r.storage
       /\ authAttempts' = r.attempts
       /\ Settle(i, r.proc)
  /\ faults' = faults + 1
  /\ UNCHANGED <<now, login, streak, repeats, calls>>

\* One call at a time, each awaited before the next is made; AsyncStorage
\* may reject requests.
NextFault ==
  \/ Tick
  \/ /\ calls < MaxFaultCalls
     /\ \E call \in AsyncCalls : StartCall(1, call)
  \/ Serve(1)
  \/ /\ faults < MaxFaults
     /\ Reject(1)

SpecFault == Init /\ [][NextFault]_vars

\* Calls made without awaiting the one before (Login's useEffect does not
\* await initializeDemoUsers; two taps make two calls); AsyncStorage serves
\* every request.  A new call takes the lowest free place.
NextOverlap ==
  \/ Tick
  \/ /\ calls < MaxOverlapCalls
     /\ \E i \in Procs, call \in AsyncCalls :
          /\ \A j \in Procs : j < i => procs[j].op # "idle"
          /\ StartCall(i, call)
  \/ \E i \in Procs : Serve(i)

SpecOverlap == Init /\ [][NextOverlap]_vars

\* Overlapping authenticateUser calls for one username, long enough for the
\* username to be locked out while calls are in flight.
MaxThrottleCalls == 7

\* The calls of these runs: sign-in as the first demo user, with its
\* password and with the password of the second one.
ThrottleCalls ==
  {[op |-> "authenticateUser", username |-> DemoCredentials[1].username,
    password |-> p] : p \in {DemoCredentials[1].password, DemoCredentials[2].password}}

\* A call is made while others are in flight; streak counts the
\* checkRateLimit calls as in Authenticate.
StartCounted(i, call) ==
  /\ procs[i].op = "idle"
  /\ \E r \in {BeginCall(call, authAttempts, now)} :
       /\ authAttempts' = r.attempts
       /\ Settle(i, r.proc)
  /\ streak' = IF call.op = "authenticateUser"
               THEN NextStreak(streak, authAttempts,
                               Validated(call.username, "username").sanitized, now)
               ELSE streak
  /\ calls' = calls + 1
  /\ UNCHANGED <<now, storage, login, repeats, faults>>

\* Login mounts (the demo users are registered), then sign-in is tapped
\* again and again without waiting for the calls before.
NextThrottle ==
  \/ Tick
  \/ calls = 0 /\ InitializeDemoUsers
  \/ /\ calls > 0
     /\ calls < MaxThrottleCalls
     /\ \E i \in Procs, call \in ThrottleCalls :
          /\ \A j \in Procs : j < i => procs[j].op # "idle"
          /\ StartCounted(i, call)
  \/ \E i \in Procs : Serve(i)

SpecThrottle == Init /\ [][NextThrottle]_vars

(***************************************************************************)
(* secureStore await by await, on the characters                           *)
(*                                                                         *)
(* secureStore computes the ciphertext, awaits setItem('secure_' + key)    *)
(* and then awaits setItem('key_' + key).  Other calls run between the     *)
(* two, and AsyncStorage may reject either.                                *)
(***************************************************************************)

MaxAwaitCalls == 3

\* The values stored in these runs: one shorter and one longer than the
\* common start 'RN_APP_' of the transform keys.
AwaitValues ==
  { Codes(<<"a", "b", "c">>),
    Codes(<<"P", "a", "s", "s", "w", "o", "r", "d", "1", "2", "3">>) }

\* The logical key the calls of these runs store under.
AwaitKey == USERS_STORAGE_KEY

\* The two physical entries of a logical key, as getItem returns them.
Envelope(st, key) ==
  [secure |-> GetItem(st, SecureSlot(key)), key |-> GetItem(st, KeySlot(key))]

\* A secureStore(key, value) call entered when Date.now() reads t, up to
\* its first await: encrypt raised and the catch rethrew (threw), or the
\* first setItem is awaited.  before: the envelope the call found; failedAt:
\* the setItem that was rejected, if one was.
BeginSecureStore(st, key, value, t) ==
  [op |-> "secureStore",
   pc |-> IF EncryptText(value, Codes(EncryptionKeyOf(t))).threw
          THEN "returned" ELSE "setSecure",
   key |-> key, value |-> value, kt |-> t,
   cipher |-> EncryptText(value, Codes(EncryptionKeyOf(t))).value,
   threw |-> EncryptText(value, Codes(EncryptionKeyOf(t))).threw,
   failedAt |-> "none",
   before |-> Envelope(st, key)]

\* A place is free for a new secureStore call.
IsFree(p) == p.op = "idle" \/ p.pc = "returned"
\* A secureStore call awaits a setItem.
AwaitsSetItem(p) == p.op = "secureStore" /\ p.pc \in {"setSecure", "setKey"}

\* secureStore(key, value) is called.
SecureStoreBegin(i, key, value) ==
  /\ IsFree(procs[i])
  /\ procs' = [procs EXCEPT ![i] = BeginSecureStore(storage, key, value, now)]
  /\ calls' = calls + 1
  /\ UNCHANGED <<now, authAttempts, storage, last, login, streak, repeats,
                 faults, registered>>

\* AsyncStorage serves the setItem call i awaits.
SetItemServed(i) ==
  /\ AwaitsSetItem(procs[i])
  /\ IF procs[i].pc = "setSecure"
     THEN /\ storage' = SetItem(storage, SecureSlot(procs[i].key), procs[i].cipher)
          /\ procs' = [procs EXCEPT ![i].pc = "setKey"]
     ELSE /\ storage' = SetItem(storage, KeySlot(procs[i].key), KeyHashOf(procs[i].kt))
          /\ procs' = [procs EXCEPT ![i].pc = "returned"]
  /\ UNCHANGED <<now, authAttempts, last, login, streak, repeats, calls,
                 faults, registered>>

\* The same with the ciphertext the call found put back.
SetItemRejectedRestores(i) ==
  /\ AwaitsSetItem(procs[i])
  /\ procs' = [procs EXCEPT ![i].pc = "returned", ![i].threw = TRUE,
                            ![i].failedAt = procs[i].pc]
  /\ storage' = IF procs[i].before.secure.kind = "string"
                THEN SetItem(storage, SecureSlot(procs[i].key),
                             procs[i].before.secure.value)
                ELSE storage
  /\ faults' = faults + 1
  /\ UNCHANGED <<now, authAttempts, last, login, streak, repeats,
                 calls, registered>>

\* AsyncStorage rejects the setItem call i awaits: the catch of secureStore
\* throws 'Failed to store data securely'.
SetItemRejected(i) ==
  /\ AwaitsSetItem(procs[i])
  /\ procs' = [procs EXCEPT ![i].pc = "returned", ![i].threw = TRUE,
                            ![i].failedAt = procs[i].pc]
  /\ faults' = faults + 1
  /\ UNCHANGED <<now, authAttempts, storage, last, login, streak, repeats,
                 calls, registered>>

NextStoreAwait ==
  \/ Tick
  \/ /\ calls < MaxAwaitCalls
     /\ \E i \in Procs, v \in AwaitValues :
          /\ \A j \in Procs : j < i => ~IsFree(procs[j])
          /\ SecureStoreBegin(i, AwaitKey, v)
  \/ \E i \in Procs : SetItemServed(i)
  \/ /\ faults < MaxFaults
     /\ \E i \in Procs : SetItemRejected(i)
  \/ /\ calls < MaxAwaitCalls
     /\ RetrieveCall(AwaitKey)

\* At the start the key holds nothing, or what secureStore wrote for "abc".
InitStoreAwait ==
  /\ InitStore
  /\ \/ storage = <<>>
     \/ /\ ~IsMissing(Envelope(storage, AwaitKey).secure)
        /\ ~IsMissing(Envelope(storage, AwaitKey).key)

SpecStoreAwait == InitStoreAwait /\ [][NextStoreAwait]_vars

(***************************************************************************)
(* Properties                                                              *)
(***************************************************************************)

\* A step is a call of the public operation op.
IsCall(op) == calls' = calls + 1 /\ last'.op = op

\* The sanitized form of a typed string.
Sanitized(input) == Validated(input, "username").sanitized

\* The username and password of the latest call, sanitized.
LastUsername == Sanitized(last.username)
LastPassword == Sanitized(last.password)

Registry == GetStoredUsers(storage)

ThrottleMessageStart == "Too many failed attempts. Please try again in "

\* A step is authenticateUser(u, p) made right after a successful
\* registerUser(u, p).
AuthenticateAfterRegister ==
  /\ last.op = "registerUser"
  /\ last.result.success
  /\ IsCall("authenticateUser")
  /\ last'.username = last.username
  /\ last'.password = last.password

\* The user authenticateUser returns is the one registerUser returned, under
\* the sanitized username.
ReturnsRegisteredUser ==
  /\ last'.result.success
  /\ last'.result.user.username = Sanitized(last.username)
  /\ last'.result.user.userId = last.result.user.userId

\* C1 as stated: register(u, p) that succeeds, followed by authenticate(u, p),
\* always gives success with the sanitized username and the registered userId.
C1_Original ==
  [][AuthenticateAfterRegister => ReturnsRegisteredUser]_vars

\* C1 amended: register(u, p) that succeeds, followed by authenticate(u, p),
\* gives success with the sanitized username and the registered userId unless
\* checkRateLimit denies the sanitized username, and then it fails with the
\* try-again message.
C1_RegisterThenAuthenticate ==
  [][AuthenticateAfterRegister =>
       /\ last'.rate.checked
       /\ IF last'.rate.allowed
          THEN ReturnsRegisteredUser
          ELSE /\ ~last'.result.success
               /\ Head(last'.result.error) = ThrottleMessageStart]_vars

\* A successful authenticate made right after the register of the same
\* credentials, with a username that sanitization changes.
C1_Witness ==
  /\ last.op = "authenticateUser"
  /\ last.afterRegister
  /\ last.result.success
  /\ LastUsername # last.username

\* The latest call is an authenticateUser that passed format validation and
\* the rate limiter, for a registered username with another password than
\* the registered one / for a username that is not registered.
WrongPasswordCall ==
  /\ last.op = "authenticateUser"
  /\ last.rate.checked /\ last.rate.allowed
  /\ UsernameExists(Registry, LastUsername)
  /\ ~IsString(SecureRetrieve(storage, PwdKey(FindUser(Registry, LastUsername).userId)),
               HashOf(LastPassword))

UnknownUserCall ==
  /\ last.op = "authenticateUser"
  /\ last.rate.checked /\ last.rate.allowed
  /\ ~UsernameExists(Registry, LastUsername)

\* C2: authenticate with a wrong password for a registered user and
\* authenticate for an unknown user return one and the same result, the
\* generic error.
C2_SameGenericError ==
  (WrongPasswordCall \/ UnknownUserCall) =>
    last.result = [success |-> FALSE,
                   error |-> <<"Invalid username or password">>,
                   user |-> NoUser]

C2_Witness ==
  /\ WrongPasswordCall
  /\ \E u \in Usernames : ~UsernameExists(Registry, Sanitized(u))

DemoUser == <<"d", "e", "m", "o", "_", "u", "s", "e", "r">>
Wrong    == <<"w", "r", "o", "n", "g">>

C5_DenialHasPositiveRemaining ==
  (last.rate.checked /\ ~last.rate.allowed) => last.rate.remainingTime > 0

\* C6: a checkRateLimit call for a username whose entry is more than 15
\* minutes old is allowed and replaces the entry by {count: 1, lastAttempt:
\* now}, whatever the count was.
C6_ExpiredEntryIsReset ==
  [][(/\ IsCall("authenticateUser")
      /\ last'.rate.checked
      /\ Sanitized(last'.username) \in DOMAIN authAttempts
      /\ now - authAttempts[Sanitized(last'.username)].lastAttempt > FifteenMinutes)
     => /\ last'.rate.allowed
        /\ authAttempts'[Sanitized(last'.username)] = [count |-> 1, lastAttempt |-> now]]_vars

\* A call that found a locked-out entry (count 5) more than 15 minutes old.
C6_Witness ==
  /\ last.rate.checked
  /\ last.rate.prior = 5
  /\ last.rate.allowed
  /\ authAttempts[LastUsername] = [count |-> 1, lastAttempt |-> last.time]

\* C7: register with a valid username whose sanitized value is the username
\* of a user of the registry, and a valid password that is not on the
\* denylist, fails with "Username already exists" and changes nothing stored.
C7_DuplicateUsernameRejected ==
  [][(/\ IsCall("registerUser")
      /\ UsernameErrors(Sanitized(last'.username)) = <<>>
      /\ PasswordErrors(Sanitized(last'.password)) = <<>>
      /\ ~IsWeakPassword(last'.password)
      /\ \E i \in 1..Len(Registry) : Registry[i].username = Sanitized(last'.username))
     => /\ last'.result = [success |-> FALSE,
                           error |-> <<"Username already exists">>,
                           user |-> NoUser]
        /\ storage' = storage]_vars

\* A rejected register of a spelling that sanitizes to a registered username.
C7_Witness ==
  /\ last.op = "registerUser"
  /\ last.result.error = <<"Username already exists">>
  /\ LastUsername # last.username
  /\ Len(Registry) = 2

\* The session slot: what secureRetrieve gives for the session key.
StoredSession == SecureRetrieve(storage, SESSION_STORAGE_KEY)
SessionExpired ==
  /\ StoredSession.kind = "session"
  /\ now - StoredSession.value.loginTime > TwentyFourHours
\* The session slot holds the empty value written by logout.
SessionEmptied ==
  /\ SecureSlot(SESSION_STORAGE_KEY) \in DOMAIN storage
  /\ IsString(storage[SecureSlot(SESSION_STORAGE_KEY)].pt, <<>>)

\* C8: getCurrentSession on a session older than 24 hours returns absent and
\* overwrites the session slot with the empty value; from then on every
\* getCurrentSession returns absent until a successful authenticate.
C8_ExpiredSessionIsCleared ==
  [][/\ (IsCall("getCurrentSession") /\ SessionExpired)
        => (last'.result.user = NoUser /\ SessionEmptied')
     /\ (SessionEmptied /\ ~(IsCall("authenticateUser") /\ last'.result.success))
        => /\ SessionEmptied'
           /\ IsCall("getCurrentSession") => last'.result.user = NoUser]_vars

\* getCurrentSession called again after it cleared an expired session.
C8_Witness ==
  /\ last.op = "getCurrentSession"
  /\ last.result.user = NoUser
  /\ login.state = "in"
  /\ now - login.time > TwentyFourHours
  /\ SessionEmptied
  /\ repeats >= 2

\* C9: after a successful authenticate of U, with no later logout or
\* successful authenticate, getCurrentSession at most 24 hours later returns
\* U's userId and username; after A and then B authenticate, it returns B.
C9_SessionReturnsLatestLogin ==
  (/\ last.op = "getCurrentSession"
   /\ login.state = "in"
   /\ last.time - login.time <= TwentyFourHours)
  => /\ last.result.user.userId = login.user.userId
     /\ last.result.user.username = login.user.username

\* getCurrentSession exactly 24 hours after B logged in over A's session.
C9_Witness ==
  /\ last.op = "getCurrentSession"
  /\ login.state = "in"
  /\ login.before # <<>>
  /\ login.before # login.user.username
  /\ last.time - login.time = TwentyFourHours
  /\ last.result.user.username = login.user.username

\* C10: after logout, getCurrentSession returns absent until the next
\* successful authenticate, whatever session was active before.
C10_AbsentAfterLogout ==
  (last.op = "getCurrentSession" /\ login.state = "out")
    => last.result.user = NoUser

\* getCurrentSession after the logout of a logged-in user.
C10_Witness ==
  /\ last.op = "getCurrentSession"
  /\ login.state = "out"
  /\ login.before # <<>>
  /\ last.result.user = NoUser

\* C11: logout removes the rate-limit entry of every username; an
\* authenticateUser made right after a logout for a username that was locked
\* out when the logout was made, still within the 15 minutes of its lockout,
\* is not throttled.
C11_LogoutUnlocksEveryone ==
  [][/\ IsCall("logout") => authAttempts' = <<>>
     /\ (/\ last.op = "logout"
         /\ IsCall("authenticateUser")
         /\ last'.rate.checked
         /\ Sanitized(last'.username) \in last.unlocked)
        => /\ last'.rate.allowed
           /\ last'.rate.prior = 0
           /\ last'.result.error # ThrottleError(last'.rate.remainingTime)]_vars

\* An authenticateUser let through right after the logout that ended the
\* lockout of its username.
C11_Witness ==
  /\ last.op = "authenticateUser"
  /\ LastUsername \in last.unlocked
  /\ last.rate.checked
  /\ last.rate.allowed

\* C13: an authenticateUser that the rate limiter denies fails with the
\* remaining-time message, whatever the password; it leaves the store (and
\* so the session) as it was and reads neither the registry nor a digest.
C13_ThrottledBeforeLookup ==
  [][(/\ IsCall("authenticateUser")
      /\ last'.rate.checked
      /\ ~last'.rate.allowed)
     => /\ ~last'.result.success
        /\ Head(last'.result.error) = ThrottleMessageStart
        /\ last'.reads = {}
        /\ storage' = storage
        /\ login' = login]_vars

\* A throttled authenticateUser that supplied the registered password.
C13_Witness ==
  /\ last.op = "authenticateUser"
  /\ last.rate.checked
  /\ ~last.rate.allowed
  /\ UsernameExists(Registry, LastUsername)
  /\ IsString(SecureRetrieve(storage, PwdKey(FindUser(Registry, LastUsername).userId)),
              HashOf(LastPassword))

\* C17: no two user records of the registry have the same username.
C17_UniqueUsernames ==
  \A i, j \in 1..Len(Registry) :
    i # j => Registry[i].username # Registry[j].username

\* A registry of two users in which a further registerUser has just failed.
C17_Witness ==
  /\ Len(Registry) = 2
  /\ last.op = "registerUser"
  /\ ~last.result.success
  /\ calls >= 3

\* The passwords typed or built in, as typed and sanitized, and their digests.
KnownPasswords ==
  LET typed == Passwords \cup {DemoCredentials[i].password : i \in 1..2}
  IN  typed \cup {Sanitized(p) : p \in typed}
KnownDigests == {HashOf(Sanitized(p)) : p \in KnownPasswords}

\* The string values of the fields of a stored record.
StringFields(record) ==
  {record[f] : f \in DOMAIN record \ {"createdAt", "loginTime"}}

\* C19: a user record has the fields username, userId and createdAt and a
\* session record userId, username, loginTime and sessionId, none of them a
\* password or a digest; a digest is stored only under a pwd_ key; a
\* password is stored under no key.
C19_NoPasswordInRecords ==
  \A s \in DOMAIN storage :
    IF s[1] = "secure_"
    THEN LET item == storage[s].pt
         IN  /\ item.kind = "users" =>
                  \A i \in 1..Len(item.value) :
                    /\ DOMAIN item.value[i] = {"username", "userId", "createdAt"}
                    /\ StringFields(item.value[i]) \cap (KnownPasswords \cup KnownDigests) = {}
             /\ item.kind = "session" =>
                  /\ DOMAIN item.value = {"userId", "username", "loginTime", "sessionId"}
                  /\ StringFields(item.value) \cap (KnownPasswords \cup KnownDigests) = {}
             /\ item.kind = "text" =>
                  /\ item.value \notin KnownPasswords
                  /\ item.value \in KnownDigests => s[2] = "pwd_"
    ELSE storage[s] \notin KnownPasswords \cup KnownDigests

\* A registered user is logged in: the registry, the digest and the session
\* are all stored.
C19_Witness ==
  /\ Len(Registry) >= 1
  /\ StoredSession.kind = "session"
  /\ \E i \in 1..Len(Registry) :
       /\ SecureSlot(PwdKey(Registry[i].userId)) \in DOMAIN storage
       /\ storage[SecureSlot(PwdKey(Registry[i].userId))].pt.value \in KnownDigests

\* A step is secureRetrieve(K) made right after secureStore(K, v).
RetrieveAfterStore ==
  /\ last.op = "secureStore"
  /\ IsCall("secureRetrieve")
  /\ last'.key = last.key

\* C14: secureStore(K, v) with a non-empty v, followed by secureRetrieve(K),
\* returns v.
C14_StoreThenRetrieve ==
  [][(RetrieveAfterStore /\ last.value # <<>>)
     => last'.result = StringItem(last.value)]_vars

C16_AbsentWhenAnyHalfMissing ==
  [][/\ (/\ IsCall("secureRetrieve")
         /\ \/ IsMissing(GetItem(storage, SecureSlot(last'.key)))
            \/ IsMissing(GetItem(storage, KeySlot(last'.key))))
        => (last'.result = NoItem /\ storage' = storage)
     /\ (RetrieveAfterStore /\ last.value = <<>> /\ ~last.threw)
        => last'.result = NoItem]_vars

\* secureRetrieve(K) right after secureStore(K, '') over a stored value.
C16_Witness ==
  /\ last.op = "secureRetrieve"
  /\ last.stored
  /\ last.value = <<>>
  /\ last.result = NoItem
  /\ SecureSlot(last.key) \in DOMAIN storage
  /\ storage[SecureSlot(last.key)] = <<>>
  /\ storage[KeySlot(last.key)] # <<>>

\* The public operations of AuthService that reach AsyncStorage.
StorageOperations ==
  {"registerUser", "authenticateUser", "getCurrentSession", "logout"}

\* No call is in flight.
AllReturned == \A i \in Procs : procs[i].op = "idle"

\* C12: a call of registerUser, authenticateUser, getCurrentSession or
\* logout during which AsyncStorage rejected a getItem or a setItem raises
\* nothing to its caller and returns the failure form of its result:
\* success false with an error message for registerUser and
\* authenticateUser, null for getCurrentSession, nothing for logout.
C12_FaultGivesFailureResult ==
  (last.op \in StorageOperations /\ last.rejected)
  => /\ ~last.raised
     /\ last.op \in {"registerUser", "authenticateUser"}
          => (~last.result.success /\ last.result.error # <<>>)
     /\ last.op = "getCurrentSession" => last.result.user = NoUser

\* The part of C12 that the code keeps: no error reaches the caller.
NoErrorReachesCaller ==
  last.op \in StorageOperations => ~last.raised

\* The user records of the registry.
RegistryUsers == {Registry[i] : i \in 1..Len(Registry)}

\* C18: once registerUser has returned success with a user record, the
\* registry holds that record (username, userId and createdAt) whenever no
\* call is in flight, whatever calls of registerUser, authenticateUser,
\* getCurrentSession and logout were made since, with or without a rejected
\* getItem or setItem.
C18_RegisteredUsersStay ==
  AllReturned => registered \subseteq RegistryUsers

\* The password the calls of these runs register the username with.
PasswordOf(username) ==
  (CHOOSE c \in AsyncCredentials : Sanitized(c.username) = username).password

\* secureRetrieve('pwd_' + userId) gives the digest of the user's password.
DigestStored(user) ==
  IsString(SecureRetrieve(storage, PwdKey(user.userId)),
           HashOf(Sanitized(PasswordOf(user.username))))

\* C20: registerUser calls that overlap, interleaved at their awaits, all
\* return success and leave the digest of each user stored under
\* pwd_{userId}, also of a user that the registry written last does not
\* hold (C20_Witness: two calls for different usernames, one user lost).
C20_OverlappingRegistersKeepDigests ==
  \A user \in registered : DigestStored(user)

\* Two overlapping registerUser calls for different usernames have both
\* returned success, the registry holds one of the two users and the
\* digest of the other is stored.
C20_Witness ==
  /\ AllReturned
  /\ calls = 2
  /\ Len(Registry) = 1
  /\ \E kept, lost \in registered :
       /\ kept.username # lost.username
       /\ RegistryUsers = {kept}
       /\ DigestStored(lost)

\* The transform key of a secureStore call, as code units.
TransformKey(p) == Codes(EncryptionKeyOf(p.kt))

\* The keys a and b, repeated, differ at one of the first n characters.
KeysDifferWithin(a, b, n) ==
  \E i \in 1..n : a[((i - 1) % Len(a)) + 1] # b[((i - 1) % Len(b)) + 1]

\* Both secureStore calls a and b have returned normally and the envelope
\* of their key holds the key of call a beside the ciphertext of call b,
\* made with another key.
Torn(a, b) ==
  /\ procs[a].op = "secureStore" /\ procs[b].op = "secureStore"
  /\ procs[a].pc = "returned" /\ procs[b].pc = "returned"
  /\ ~procs[a].threw /\ ~procs[b].threw
  /\ procs[a].key = procs[b].key
  /\ procs[a].kt # procs[b].kt
  /\ Envelope(storage, procs[a].key) =
       [secure |-> StringItem(procs[b].cipher),
        key    |-> StringItem(KeyHashOf(procs[a].kt))]

\* A step is a secureRetrieve call.
RetrieveStep ==
  /\ last'.op = "secureRetrieve"
  /\ calls' = calls + 1
  /\ procs' = procs

\* C21: when two secureStore calls on one key, with different transform
\* keys, have left the ciphertext of one beside the key of the other, and
\* the two keys differ within the length of that ciphertext's value,
\* secureRetrieve returns neither of the two values: it returns the value
\* of the ciphertext XORed with both keys.
C21_TornEnvelopeGivesNeither ==
  [][\A a, b \in Procs :
       (/\ RetrieveStep
        /\ Torn(a, b)
        /\ last'.key = procs[a].key
        /\ KeysDifferWithin(TransformKey(procs[a]), TransformKey(procs[b]),
                            Len(procs[b].value)))
       => /\ last'.result # StringItem(procs[a].value)
          /\ last'.result # StringItem(procs[b].value)
          /\ last'.result =
               StringItem(XorWithKey(XorWithKey(procs[b].value,
                                                TransformKey(procs[b])),
                                     TransformKey(procs[a])))]_vars

\* Two overlapping secureStore calls have torn the envelope and the
\* secureRetrieve made after them has returned neither value.
C21_Witness ==
  /\ last.op = "secureRetrieve"
  /\ last.result = SecureRetrieveText(storage, last.key)
  /\ faults = 0
  /\ \E a, b \in Procs :
       /\ Torn(a, b)
       /\ last.key = procs[a].key
       /\ last.result.kind = "string"
       /\ last.result.value \notin {procs[a].value, procs[b].value}

RegistryWriteFailed ==
  /\ AllReturned
  /\ last.op = "registerUser"
  /\ last.failed[1] = "users"
  /\ last.failed[2] \in {"setSecure", "setKey"}

\* C23: a registerUser whose digest write is served and whose registry
\* write is rejected returns 'Registration failed. Please try again.',
\* leaves the digest stored under pwd_{userId} with no registry entry for
\* the user, and leaves the username free to register.
C23_FailedRegistryWriteOrphansDigest ==
  RegistryWriteFailed
  => /\ ~last.raised
     /\ last.result = Failure(<<"Registration failed. Please try again.">>)
     /\ DigestStored(last.user)
     /\ last.user \notin RegistryUsers
     /\ ~UsernameExists(Registry, last.user.username)

\* The only secureStore call ever in flight has returned after its second
\* setItem was rejected, and it found a whole envelope under its key.
SecondWriteFailed ==
  /\ procs[2].op = "idle"
  /\ procs[1].op = "secureStore"
  /\ procs[1].pc = "returned"
  /\ procs[1].failedAt = "setKey"
  /\ ~IsMissing(procs[1].before.secure)
  /\ ~IsMissing(procs[1].before.key)

\* What secureRetrieve returned for the envelope the call found.
ValueBefore(p) ==
  DecryptText(p.before.secure.value, AtobCodes(p.before.key.value))

\* C24: a secureStore(K, v) over an existing record whose first setItem is
\* served and whose second is rejected throws 'Failed to store data
\* securely' and leaves the new ciphertext beside the old key; what
\* secureRetrieve(K) then returns is v XORed with the new and the old key.
C24_FailedSecondWriteTearsEnvelope ==
  SecondWriteFailed
  => /\ procs[1].threw
     /\ Envelope(storage, procs[1].key) =
          [secure |-> StringItem(procs[1].cipher),
           key    |-> procs[1].before.key]
     /\ SecureRetrieveText(storage, procs[1].key) =
          StringItem(XorWithKey(XorWithKey(procs[1].value,
                                           TransformKey(procs[1])),
                                AtobCodes(procs[1].before.key.value)))

\* After such a call secureRetrieve(K) has returned neither the value
\* stored before nor v.
C24_Witness ==
  /\ SecondWriteFailed
  /\ last.op = "secureRetrieve"
  /\ last.key = procs[1].key
  /\ last.result = SecureRetrieveText(storage, last.key)
  /\ last.result.kind = "string"
  /\ last.result.value \notin {procs[1].value, ValueBefore(procs[1])}

\* The session slot: the two physical entries of the session key.
SessionSlot(st) ==
  [s \in DOMAIN st \cap {SecureSlot(SESSION_STORAGE_KEY),
                         KeySlot(SESSION_STORAGE_KEY)} |-> st[s]]

\* C25: the session slot changes only when a successful authenticateUser
\* stores the session of the user it returns, when logout empties it and
\* when getCurrentSession finds an expired session and empties it;
\* registerUser, initializeDemoUsers, an authenticateUser that fails and a
\* getCurrentSession on an absent or unexpired session leave it as it is.
C25_SessionSlotFrame ==
  [][/\ SessionSlot(storage') # SessionSlot(storage)
        => \/ IsCall("authenticateUser") /\ last'.result.success
           \/ IsCall("logout")
           \/ IsCall("getCurrentSession") /\ SessionExpired
     /\ (IsCall("authenticateUser") /\ last'.result.success)
        => /\ StoredSession'.kind = "session"
           /\ StoredSession'.value.userId = last'.result.user.userId
           /\ StoredSession'.value.username = last'.result.user.username
           /\ StoredSession'.value.loginTime = now
     /\ IsCall("logout") => SessionEmptied'
     /\ (IsCall("getCurrentSession") /\ SessionExpired) => SessionEmptied'
     /\ (\/ IsCall("registerUser")
         \/ IsCall("initializeDemoUsers")
         \/ IsCall("authenticateUser") /\ ~last'.result.success
         \/ IsCall("getCurrentSession") /\ ~SessionExpired)
        => SessionSlot(storage') = SessionSlot(storage)]_vars

\* A wrong-password authenticateUser made while a session is stored.
C25_Witness ==
  /\ last.op = "authenticateUser"
  /\ ~last.result.success
  /\ last.result.error = WrongPasswordError
  /\ last.rate.checked
  /\ login.state = "in"
  /\ StoredSession.kind = "session"
  /\ StoredSession.value.username # LastUsername

\* C26: every entry of authAttempts has a count from 1 to 5, however many
\* checkRateLimit calls were made.
C26_CountWithinThreshold ==
  \A username \in DOMAIN authAttempts :
    /\ authAttempts[username].count >= 1
    /\ authAttempts[username].count <= MaxAttempts

\* Two calls have been denied for a username whose count stays at 5.
C26_Witness ==
  /\ last.rate.checked
  /\ ~last.rate.allowed
  /\ streak.username = LastUsername
  /\ streak.n = 7
  /\ authAttempts[LastUsername].count = MaxAttempts

\* A step is an authenticateUser call that reached checkRateLimit.
RateLimitStep == IsCall("authenticateUser") /\ last'.rate.checked

FailsFormat(input, type) ==
  IF type = "username" THEN UsernameErrors(Sanitized(input)) # <<>>
  ELSE PasswordErrors(Sanitized(input)) # <<>>

\* C28: an authenticateUser call whose username or password fails the
\* format rules returns 'Invalid username or password format' without
\* calling checkRateLimit, and leaves the attempt table and everything
\* stored, the session included, as they are.
C28_FormatErrorBeforeRateLimit ==
  [][(/\ IsCall("authenticateUser")
      /\ \/ FailsFormat(last'.username, "username")
         \/ FailsFormat(last'.password, "password"))
     => /\ last'.result = Failure(<<"Invalid username or password format">>)
        /\ ~last'.rate.checked
        /\ authAttempts' = authAttempts
        /\ storage' = storage]_vars

\* Two calls in a row with a malformed password for a username that has an
\* entry, which still counts one attempt.
C28_Witness ==
  /\ last.op = "authenticateUser"
  /\ FailsFormat(last.password, "password")
  /\ ~FailsFormat(last.username, "username")
  /\ repeats >= 2
  /\ LastUsername \in DOMAIN authAttempts
  /\ authAttempts[LastUsername].count = 1

\* C29: authenticateUser returns success only when the registry holds a
\* user whose username is the sanitized username typed and the value
\* retrieved under pwd_{userId} of that user is the digest of the sanitized
\* password typed; it returns that record, and the session of that user,
\* with loginTime now, is stored when it returns.
C29_SuccessOnlyOnMatchingDigest ==
  [][(IsCall("authenticateUser") /\ last'.result.success)
     => /\ last'.result.user \in RegistryUsers
        /\ last'.result.user = FindUser(Registry, Sanitized(last'.username))
        /\ last'.result.user.username = Sanitized(last'.username)
        /\ SecureRetrieve(storage, PwdKey(last'.result.user.userId))
             = Text(HashOf(Sanitized(last'.password)))
        /\ StoredSession'.kind = "session"
        /\ StoredSession'.value =
             [userId    |-> last'.result.user.userId,
              username  |-> last'.result.user.username,
              loginTime |-> now,
              sessionId |-> SessionIdOf(last'.result.user.username, now)]]_vars

\* The second user of a registry of two has authenticated.
C29_Witness ==
  /\ last.op = "authenticateUser"
  /\ last.result.success
  /\ Len(Registry) = 2
  /\ Registry[2] = last.result.user
  /\ StoredSession.kind = "session"
  /\ StoredSession.value.userId = last.result.user.userId

\* C30: the digests of different passwords differ, so authenticateUser with
\* a password other than the one registered, sanitized, never succeeds.
C30_DifferentPasswordNeverAuthenticates ==
  [][(/\ last.op = "registerUser"
      /\ last.result.success
      /\ IsCall("authenticateUser")
      /\ last'.username = last.username
      /\ Sanitized(last'.password) # Sanitized(last.password))
     => /\ HashOf(Sanitized(last'.password)) # HashOf(Sanitized(last.password))
        /\ ~last'.result.success]_vars

(***************************************************************************)
(* C31: user ids                                                           *)
(***************************************************************************)

\* The pairs of different users of the registry.
RegistryPairs ==
  {pair \in (1..Len(Registry)) \X (1..Len(Registry)) : pair[1] < pair[2]}

\* C31: generateSecureUserId returns a different id on every call, so any
\* two users of the registry have different userIds, and a registerUser
\* leaves the pwd_{userId} records of the users registered before it as
\* they were.
C31_UserIdsAreUnique ==
  \A pair \in RegistryPairs :
    Registry[pair[1]].userId # Registry[pair[2]].userId

\* The same for the stored digests: a successful registerUser changes no
\* pwd_{userId} record of a user that was in the registry before it.
C31_RegisterKeepsOtherDigests ==
  [][(IsCall("registerUser") /\ last'.result.success)
     => \A i \in 1..Len(Registry) :
          SecureRetrieve(storage', PwdKey(Registry[i].userId))
            = SecureRetrieve(storage, PwdKey(Registry[i].userId))]_vars

(***************************************************************************)
(* C32: passwords of the denylist                                          *)
(***************************************************************************)

\* The strings a digest can be computed from that isWeakPassword finds in
\* the denylist.
WeakStrings == {s \in SanitizedInputs : IsWeakPassword(s)}

\* C32: no digest stored under the pwd_{userId} key of a user of the
\* registry is the digest of a string that equals, whatever the case, an
\* entry of the denylist.
C32_NoWeakDigestStored ==
  \A i \in 1..Len(Registry) :
    \A s \in WeakStrings :
      SecureRetrieve(storage, PwdKey(Registry[i].userId)) # Text(HashOf(s))

\* The same for the call: registerUser does not succeed when the password
\* it computes the digest from is in the denylist.
C32_RegisterRejectsWeakPassword ==
  [][(IsCall("registerUser") /\ last'.result.success)
     => ~IsWeakPassword(Sanitized(last'.password))]_vars

(***************************************************************************)
(* C33: the rate limiter under overlapping calls                           *)
(***************************************************************************)

\* The step makes a call that passes checkRateLimit: the call is in flight
\* after it, waiting for the registry.
PassesRateLimit ==
  \E i \in Procs : procs[i].op = "idle" /\ procs'[i].op = "authenticateUser"

\* The step makes a call that authenticateUser turns down as throttled.
DeniedAsThrottled ==
  /\ procs' = procs
  /\ last'.op = "authenticateUser"
  /\ ~last'.result.success
  /\ Head(last'.result.error) = ThrottleMessageStart

FiveSuccessesInARow ==
  /\ last.op = "authenticateUser"
  /\ last.result.success
  /\ repeats = MaxAttempts
  /\ streak.n = MaxAttempts
  /\ streak.username = Sanitized(last.username)

\* The same read off the run alone: one call (the registerUser), then five
\* authenticateUser calls with the same credentials, the fifth successful,
\* all within 15 minutes of the start; the first one found no entry, so
\* none of the five was denied.
FirstFiveSucceeded ==
  /\ last.op = "authenticateUser"
  /\ last.result.success
  /\ repeats = MaxAttempts
  /\ calls = MaxAttempts + 1
  /\ now - StartTime <= FifteenMinutes

C35_DeniedCallsDoNotExtendLockout ==
  [][(calls' = calls + 1 /\ last'.op = "checkRateLimit")
     => /\ ~last'.allowed => authAttempts' = authAttempts
        /\ (/\ streak[last'.username].n = MaxAttempts
            /\ now > streak[last'.username].time + FifteenMinutes)
           => /\ last'.allowed
              /\ authAttempts'[last'.username] = [count |-> 1, lastAttempt |-> now]]_vars

\* A username is allowed again 15 minutes and 1 millisecond after its
\* fifth allowed call, its calls in between having been denied.
C35_Witness ==
  /\ last.op = "checkRateLimit"
  /\ last.allowed
  /\ streak[last.username] = [n |-> 1, time |-> now, denied |-> 0]
  /\ now = StartTime + FifteenMinutes + 1
  /\ calls = MaxLimiterCalls
  /\ \A u \in LimiterUsernames \ {last.username} : streak[u].n = 0

(***************************************************************************)
(* C36: getCurrentSession and the table of attempts                        *)
(***************************************************************************)

\* C36: getCurrentSession on a stored session older than 24 hours runs
\* logout, which clears the rate-limit entries of every username;
\* getCurrentSession on an absent session or on one not older than 24 hours
\* leaves the table of attempts and the store as they were.
C36_SessionLookupAndAttempts ==
  [][IsCall("getCurrentSession")
     => IF SessionExpired
        THEN /\ authAttempts' = <<>>
             /\ SessionEmptied'
             /\ last'.result.user = NoUser
        ELSE /\ authAttempts' = authAttempts
             /\ storage' = storage]_vars

\* getCurrentSession has cleared the table: the user signed in more than 24
\* hours ago is still the latest one signed in, no logout was called since,
\* and the entry of that sign-in is gone.
C36_Witness ==
  /\ last.op = "getCurrentSession"
  /\ last.result.user = NoUser
  /\ login.state = "in"
  /\ now - login.time > TwentyFourHours
  /\ authAttempts = <<>>
  /\ SessionEmptied
  /\ calls = 3

(***************************************************************************)
(* C37: logout when the session write fails                                *)
(***************************************************************************)

\* AsyncStorage rejects a setItem of the secureStore of a logout call.
LogoutWriteRejected(i) ==
  /\ procs[i].op = "logout"
  /\ procs[i].pc \in {"setSecure", "setKey"}
  /\ faults' = faults + 1

\* What getCurrentSession returns for a stored session that has not expired.
SessionUser(session) ==
  [username  |-> session.username,
   userId    |-> session.userId,
   createdAt |-> session.loginTime]

\* C37: when a setItem of the session write of logout is rejected, logout
\* returns without raising and the table of attempts is as it was; when it
\* is the first setItem, the storage is as it was, and getCurrentSession
\* returns what it returned before: the user of the stored session if that
\* has not expired.
C37_FailedLogoutKeepsAttempts ==
  [][\A i \in Procs :
       LogoutWriteRejected(i)
       => /\ procs'[i].op = "idle"
          /\ last'.op = "logout"
          /\ ~last'.raised
          /\ last'.result = Returned(NoUser)
          /\ authAttempts' = authAttempts
          /\ procs[i].pc = "setSecure"
             => /\ storage' = storage
                /\ GetCurrentSessionEffect(storage', authAttempts', now).user
                     = GetCurrentSessionEffect(storage, authAttempts, now).user
                /\ (StoredSession.kind = "session" /\ ~SessionExpired)
                   => GetCurrentSessionEffect(storage', authAttempts', now).user
                        = SessionUser(StoredSession.value)]_vars

\* logout has returned after its first setItem was rejected: a username
\* still has its entry and the session of the user signed in is still
\* returned.
C37_Witness ==
  /\ last.op = "logout"
  /\ last.rejected
  /\ last.failed = <<"logout", "setSecure">>
  /\ ~last.raised
  /\ authAttempts # <<>>
  /\ StoredSession.kind = "session"
  /\ GetCurrentSessionEffect(storage, authAttempts, now).user
       = SessionUser(StoredSession.value)

=============================================================================
